---- MODULE Spec2Model ----
(***************************************************************************)
(* A model of the TrueCost server actions (src/src/app/actions.ts), the    *)
(* Insights page score (src/src/app/insights/page.tsx) and the             *)
(* subscription projection helpers (src/unnamed/part_005).                 *)
(*                                                                         *)
(* Numbers.  A JavaScript number is modelled as an exact rational          *)
(* <<n, d>> in lowest terms with d > 0, extended with the three IEEE       *)
(* specials <<1, 0>> (Infinity), <<-1, 0>> (-Infinity) and <<0, 0>> (NaN). *)
(* Rounding error of binary floating point and the sign of zero are not    *)
(* modelled.                                                               *)
(*                                                                         *)
(* Time.  An instant is a whole number of hours since 2024-01-01T00:00Z.   *)
(* A calendar date string "YYYY-MM-DD" is modelled by its day number       *)
(* (days since 2024-01-01); ISO date strings order as their day numbers.   *)
(***************************************************************************)
EXTENDS Integers, Sequences, FiniteSets, TLC

VARIABLES db, cookie, nowT, env, uuids, result, call, ret

vars == <<db, cookie, nowT, env, uuids, result, call, ret>>

storeVars == <<db, cookie, nowT, env, uuids, result>>

(***************************************************************************)
(* JavaScript number arithmetic                                            *)
(***************************************************************************)
Abs(n) == IF n < 0 THEN -n ELSE n

Sign(n) == IF n < 0 THEN -1 ELSE IF n > 0 THEN 1 ELSE 0

RECURSIVE Gcd(_, _)
Gcd(a, b) == IF b = 0 THEN a ELSE Gcd(b, a % b)

\* The number n/d in normal form; d = 0 gives Infinity, -Infinity or NaN.
Rat(n, d) ==
    IF d = 0 THEN <<Sign(n), 0>>
    ELSE LET g == Gcd(Abs(n), Abs(d))
             s == IF d < 0 THEN -1 ELSE 1
         IN  <<(s * n) \div g, (s * d) \div g>>

Num(n) == <<n, 1>>

NaN == <<0, 0>>

Infinity == <<1, 0>>

NegInfinity == <<-1, 0>>

IsNaN(x) == x = NaN

\* Number.isFinite
IsFinite(x) == x[2] # 0

RNeg(x) == <<-x[1], x[2]>>

\* a < b; false when either side is NaN
RLt(a, b) ==
    IF IsNaN(a) \/ IsNaN(b) THEN FALSE
    ELSE IF a[2] = 0 /\ b[2] = 0 THEN a[1] < b[1]
    ELSE a[1] * b[2] < b[1] * a[2]

RGt(a, b) == RLt(b, a)

RLe(a, b) == ~IsNaN(a) /\ ~IsNaN(b) /\ ~RLt(b, a)

RGe(a, b) == RLe(b, a)

RAdd(a, b) ==
    IF IsNaN(a) \/ IsNaN(b) THEN NaN
    ELSE IF a[2] = 0 /\ b[2] = 0 THEN (IF a[1] = b[1] THEN a ELSE NaN)
    ELSE IF a[2] = 0 THEN a
    ELSE IF b[2] = 0 THEN b
    ELSE LET g == Gcd(a[2], b[2])
         IN  Rat(a[1] * (b[2] \div g) + b[1] * (a[2] \div g), (a[2] \div g) * b[2])

RSub(a, b) == RAdd(a, RNeg(b))

RMul(a, b) ==
    IF IsNaN(a) \/ IsNaN(b) THEN NaN
    ELSE IF a[2] = 0 \/ b[2] = 0 THEN <<Sign(a[1]) * Sign(b[1]), 0>>
    ELSE LET g1 == Gcd(Abs(a[1]), b[2])
             g2 == Gcd(Abs(b[1]), a[2])
         IN  Rat((a[1] \div g1) * (b[1] \div g2), (a[2] \div g2) * (b[2] \div g1))

RDiv(a, b) ==
    IF IsNaN(a) \/ IsNaN(b) THEN NaN
    ELSE IF a[2] = 0 /\ b[2] = 0 THEN NaN
    ELSE IF a[2] = 0 THEN <<a[1] * (IF b[1] < 0 THEN -1 ELSE 1), 0>>
    ELSE IF b[2] = 0 THEN Num(0)
    ELSE IF b[1] = 0 THEN <<Sign(a[1]), 0>>
    ELSE Rat(a[1] * b[2], a[2] * b[1])

\* Math.max and Math.min of two numbers: NaN when either is NaN
RMax(a, b) == IF IsNaN(a) \/ IsNaN(b) THEN NaN ELSE IF RLt(a, b) THEN b ELSE a

RMin(a, b) == IF IsNaN(a) \/ IsNaN(b) THEN NaN ELSE IF RLt(b, a) THEN b ELSE a

\* Math.round: the nearest integer, halves rounded towards +Infinity
RRound(x) ==
    IF ~IsFinite(x) THEN x
    ELSE LET n2 == 2 * x[1] + x[2]
             d2 == 2 * x[2]
         IN  Num((n2 - (n2 % d2)) \div d2)

\* Math.pow(base, m) for a natural exponent m: pow(x, 0) is 1 for every x
RECURSIVE RPow(_, _)
RPow(base, m) == IF m = 0 THEN Num(1) ELSE RMul(base, RPow(base, m - 1))

\* A plausible slip: only the floor is applied.
clamp_floorOnly(n, min, max) == RMax(min, n)

clamp(n, min, max) == RMax(min, RMin(max, n))

(***************************************************************************)
(* Text.  A string is the sequence of its characters.                      *)
(***************************************************************************)
IsSpace(c) == c = " "

RECURSIVE TrimStart(_)
TrimStart(str) ==
    IF str # <<>> /\ IsSpace(Head(str)) THEN TrimStart(Tail(str)) ELSE str

RECURSIVE TrimEnd(_)
TrimEnd(str) ==
    IF str # <<>> /\ IsSpace(str[Len(str)])
    THEN TrimEnd(SubSeq(str, 1, Len(str) - 1)) ELSE str

\* String.prototype.trim
Trim(str) == TrimEnd(TrimStart(str))

LowerChar(c) ==
    CASE c = "A" -> "a" [] c = "B" -> "b" [] c = "C" -> "c" [] c = "D" -> "d"
      [] c = "E" -> "e" [] c = "F" -> "f" [] c = "G" -> "g" [] c = "H" -> "h"
      [] c = "I" -> "i" [] c = "J" -> "j" [] c = "K" -> "k" [] c = "L" -> "l"
      [] c = "M" -> "m" [] c = "N" -> "n" [] c = "O" -> "o" [] c = "P" -> "p"
      [] c = "Q" -> "q" [] c = "R" -> "r" [] c = "S" -> "s" [] c = "T" -> "t"
      [] c = "U" -> "u" [] c = "V" -> "v" [] c = "W" -> "w" [] c = "X" -> "x"
      [] c = "Y" -> "y" [] c = "Z" -> "z"
      [] OTHER -> c

\* String.prototype.toLowerCase
ToLowerCase(str) == [i \in 1..Len(str) |-> LowerChar(str[i])]

\* String.prototype.includes
Includes(str, sub) ==
    \E i \in 0..(Len(str) - Len(sub)) : SubSeq(str, i + 1, i + Len(sub)) = sub

(***************************************************************************)
(* The store and the request context                                       *)
(***************************************************************************)
\* Row and session ids are pairs <<prefix, n>>; makeId draws a fresh n.
DEMO_USER_ID == <<"demo-user", 0>>

\* No tc_session cookie in the request.
NoCookie == <<"none", 0>>

\* The lifetime of a session, in days.
SESSION_TTL_DAYS == 30

\* A freshly migrated database: every table is empty.
EmptyDb ==
    [users |-> {}, userSettings |-> {}, sessions |-> {}, expenses |-> {},
     subscriptions |-> {}, ghostCartItems |-> {}]

NoResult == [op |-> "none"]

NoCall == [fn |-> "none"]

\* The process environment: the local time zone (offset std hours from UTC
\* before the instant switch, std + delta from it on) and the
\* TC_SEED_DEMO_SUBSCRIPTIONS flag.
UtcEnv == [tzStd |-> 0, tzSwitch |-> 0, tzDelta |-> 0, seedDemo |-> FALSE]

\* The store part of a state in which only pure functions are exercised.
StoreIdle ==
    /\ db = EmptyDb
    /\ cookie = NoCookie
    /\ nowT = 0
    /\ env = UtcEnv
    /\ uuids = 0
    /\ result = NoResult

(***************************************************************************)
(* Dates                                                                   *)
(***************************************************************************)
\* The local offset from UTC, in hours, in force at instant t.
LocalOffset(t) == IF t >= env.tzSwitch THEN env.tzStd + env.tzDelta ELSE env.tzStd

\* LocalTime(t): the local wall-clock reading of instant t.
ToLocal(t) == t + LocalOffset(t)

\* UTC(local): the instant of a wall-clock reading.  A reading that occurs
\* twice (clocks set back) is the earlier instant; one that never occurs
\* (clocks set forward) is read with the offset in force before the change.
FromLocal(loc) ==
    IF loc - env.tzStd < env.tzSwitch THEN loc - env.tzStd
    ELSE IF loc - env.tzStd - env.tzDelta >= env.tzSwitch
         THEN loc - env.tzStd - env.tzDelta
    ELSE loc - env.tzStd

\* Floor division by 24: the day an hour count falls on.
DayOf(h) == h \div 24

\* d.toISOString().slice(0, 10): the UTC calendar day of the instant.
isoDate(d) == DayOf(d)

\* setDate(getDate() + days): the same wall-clock time, days local days on.
addDays(d, days) == FromLocal(ToLocal(d) + 24 * days)

\* new Date(`${date}T00:00:00`): local midnight of a calendar day.
LocalMidnight(date) == FromLocal(24 * date)

\* getDay() of an instant: 0 = Sunday .. 6 = Saturday (day 0 is a Monday).
getDay(d) == (DayOf(ToLocal(d)) + 1) % 7

IsLeap(y) == (y % 4 = 0 /\ y % 100 # 0) \/ y % 400 = 0

\* The length of month m (0 = January) of year y.
DaysInMonth(y, m) ==
    IF m = 1 THEN (IF IsLeap(y) THEN 29 ELSE 28)
    ELSE IF m \in {3, 5, 8, 10} THEN 30 ELSE 31

\* The civil date <<year, month, dayOfMonth>> of a day number >= 0, counted
\* on from <<y, m>>, whose first day is day number 0 of the count.
RECURSIVE CivilFrom(_, _, _)
CivilFrom(day, y, m) ==
    IF day < DaysInMonth(y, m) THEN <<y, m, day + 1>>
    ELSE CivilFrom(day - DaysInMonth(y, m),
                   IF m = 11 THEN y + 1 ELSE y, IF m = 11 THEN 0 ELSE m + 1)

Civil(day) == CivilFrom(day, 2024, 0)

getFullYear(d) == Civil(DayOf(ToLocal(d)))[1]

getMonth(d) == Civil(DayOf(ToLocal(d)))[2]

\* The day number of the first day of month m of year y (y >= 2024).
RECURSIVE MonthStart(_, _)
MonthStart(y, m) ==
    IF y = 2024 /\ m = 0 THEN 0
    ELSE LET py == IF m = 0 THEN y - 1 ELSE y
             pm == IF m = 0 THEN 11 ELSE m - 1
         IN  MonthStart(py, pm) + DaysInMonth(py, pm)

\* setMonth(getMonth() + k): the same day of month and wall-clock time k
\* months on; a day past the end of that month runs on into the next.
setMonthPlus(d, k) ==
    LET loc == ToLocal(d)
        c   == Civil(DayOf(loc))
        mm  == c[2] + k
    IN  FromLocal(24 * (MonthStart(c[1] + (mm \div 12), mm % 12) + c[3] - 1) + (loc % 24))

\* A plausible slip: months counted as elapsed runs of thirty days.
monthsBetween_elapsed(a, b) ==
    LET m == (b - a) \div (24 * 30)
    IN  IF m > 0 THEN m ELSE 0

monthsBetween(a, b) ==
    LET m == (getFullYear(b) - getFullYear(a)) * 12 + (getMonth(b) - getMonth(a))
    IN  IF m > 0 THEN m ELSE 0

(***************************************************************************)
(* Queries                                                                 *)
(***************************************************************************)
\* SQL NULL in a nullable text column (no string is this sequence).
Null == <<"null">>

\* ORDER BY key DESC: the store may return rows of equal key in any order.
\* Every sequence of the rows of S in which no row precedes one of a
\* greater key: a row of the greatest key first, then the others.
RECURSIVE OrderByDesc(_, _)
OrderByDesc(S, column) ==
    IF S = {} THEN {<<>>}
    ELSE UNION {{<<x>> \o f : f \in OrderByDesc(S \ {x}, column)} :
                   x \in {y \in S : \A z \in S : y[column] >= z[column]}}

\* LIMIT n
Limit(f, n) == SubSeq(f, 1, IF Len(f) < n THEN Len(f) ELSE n)

\* rows.reduce((sum, e) => sum + amount(e), 0): the left-to-right sum
RECURSIVE SumTo(_, _)
SumTo(amounts, n) ==
    IF n = 0 THEN Num(0) ELSE RAdd(SumTo(amounts, n - 1), amounts[n])

Sum(amounts) == SumTo(amounts, Len(amounts))

\* A Record<string, number> kept as the list of its entries in insertion
\* order; tot[key] = (tot[key] ?? 0) + amount.
TotalsPut(tot, key, amount) ==
    IF \E i \in 1..Len(tot) : tot[i].key = key
    THEN [i \in 1..Len(tot) |->
             IF tot[i].key = key THEN [tot[i] EXCEPT !.total = RAdd(@, amount)] ELSE tot[i]]
    ELSE Append(tot, [key |-> key, total |-> RAdd(Num(0), amount)])

\* tot[key] ?? 0
TotalsGet(tot, key) ==
    IF \E i \in 1..Len(tot) : tot[i].key = key
    THEN tot[CHOOSE i \in 1..Len(tot) : tot[i].key = key].total
    ELSE Num(0)

\* for (const e of rows) tot[key(e)] = (tot[key(e)] ?? 0) + amount(e)
RECURSIVE TotalsOf(_, _, _)
TotalsOf(keys, amounts, n) ==
    IF n = 0 THEN <<>>
    ELSE TotalsPut(TotalsOf(keys, amounts, n - 1), keys[n], amounts[n])

Amounts(rows) == [i \in 1..Len(rows) |-> rows[i].amount]

(***************************************************************************)
(* Settings, income and the acting user                                    *)
(***************************************************************************)
DEFAULT_SETTINGS ==
    [hourlyWage |-> Num(30), payFrequency |-> "biweekly", currency |-> "CAD",
     expectedAnnualReturn |-> Rat(8, 100), jobSatisfaction |-> Num(7)]

computeStressMultiplier(jobSatisfaction) ==
    LET s == clamp(RRound(jobSatisfaction), Num(1), Num(10))
    IN  RAdd(Num(1), RMul(RSub(Num(10), s), Rat(1, 10)))

\* A plausible slip: the biweekly branch is missing, so a biweekly pay
\* period counts the monthly hours.
computeIncomeThisPeriod_twoWay(settings) ==
    RMul(settings.hourlyWage, Num(IF settings.payFrequency = "weekly" THEN 40 ELSE 160))

computeIncomeThisPeriod(settings) ==
    LET hourly == settings.hourlyWage
        hours  == IF settings.payFrequency = "weekly" THEN 40
                  ELSE IF settings.payFrequency = "biweekly" THEN 80 ELSE 160
    IN  RMul(hourly, Num(hours))

\* The user_settings row written for a user.
SettingsRow(userId, st) ==
    [userId |-> userId, hourlyWage |-> st.hourlyWage, payFrequency |-> st.payFrequency,
     currency |-> st.currency, expectedAnnualReturn |-> st.expectedAnnualReturn,
     inflationAdjusted |-> 0, jobSatisfaction |-> st.jobSatisfaction, updatedAt |-> nowT]

DemoUserName == <<"D", "e", "m", "o", " ", "U", "s", "e", "r">>

ensureDemoUser(d) ==
    LET d1 == IF \E u \in d.users : u.id = DEMO_USER_ID THEN d
              ELSE [d EXCEPT !.users = @ \cup
                       {[id |-> DEMO_USER_ID, name |-> DemoUserName,
                         email |-> Null, passwordHash |-> Null, createdAt |-> nowT]}]
    IN  IF \E r \in d1.userSettings : r.userId = DEMO_USER_ID THEN d1
        ELSE [d1 EXCEPT !.userSettings = @ \cup {SettingsRow(DEMO_USER_ID, DEFAULT_SETTINGS)}]

\* A plausible slip: the expiry test is turned round, so that the lookup
\* deletes the sessions still in force and honours the expired ones.
getCurrentUserId_expiryFlipped(d, ck) ==
    LET d1 == ensureDemoUser(d)
    IN  IF ck = NoCookie THEN [db |-> d1, cookie |-> ck, userId |-> DEMO_USER_ID]
        ELSE IF ~\E x \in d1.sessions : x.id = ck
             THEN [db |-> d1, cookie |-> NoCookie, userId |-> DEMO_USER_ID]
        ELSE LET x == CHOOSE x \in d1.sessions : x.id = ck
             IN  IF x.expiresAt > nowT
                 THEN [db |-> [d1 EXCEPT !.sessions = {y \in @ : y.id # ck}],
                       cookie |-> NoCookie, userId |-> DEMO_USER_ID]
                 ELSE [db |-> d1, cookie |-> ck, userId |-> x.userId]

\* A plausible slip: the expiry of the session is not looked at.
getCurrentUserId_noExpiry(d, ck) ==
    LET d1 == ensureDemoUser(d)
    IN  IF ck = NoCookie THEN [db |-> d1, cookie |-> ck, userId |-> DEMO_USER_ID]
        ELSE IF ~\E x \in d1.sessions : x.id = ck
             THEN [db |-> d1, cookie |-> NoCookie, userId |-> DEMO_USER_ID]
        ELSE LET x == CHOOSE x \in d1.sessions : x.id = ck
             IN  [db |-> d1, cookie |-> ck, userId |-> x.userId]

\* The acting user of a request carrying cookie ck, with the store and the
\* cookie jar as the lookup leaves them.
getCurrentUserId(d, ck) ==
    LET d1 == ensureDemoUser(d)
    IN  IF ck = NoCookie THEN [db |-> d1, cookie |-> ck, userId |-> DEMO_USER_ID]
        ELSE IF ~\E x \in d1.sessions : x.id = ck
             THEN [db |-> d1, cookie |-> NoCookie, userId |-> DEMO_USER_ID]
        ELSE LET x == CHOOSE x \in d1.sessions : x.id = ck
             IN  IF x.expiresAt <= nowT
                 THEN [db |-> [d1 EXCEPT !.sessions = {y \in @ : y.id # ck}],
                       cookie |-> NoCookie, userId |-> DEMO_USER_ID]
                 ELSE [db |-> d1, cookie |-> ck, userId |-> x.userId]

\* A plausible slip: the stored satisfaction is returned as it is.
getSettings_unclamped(d, userId) ==
    IF ~\E r \in d.userSettings : r.userId = userId
    THEN [db |-> [d EXCEPT !.userSettings = @ \cup {SettingsRow(userId, DEFAULT_SETTINGS)}],
          settings |-> DEFAULT_SETTINGS]
    ELSE LET row == CHOOSE r \in d.userSettings : r.userId = userId
         IN  [db |-> d,
              settings |->
                  [hourlyWage |-> row.hourlyWage, payFrequency |-> row.payFrequency,
                   currency |-> row.currency,
                   expectedAnnualReturn |-> row.expectedAnnualReturn,
                   jobSatisfaction |-> row.jobSatisfaction]]

getSettings(d, userId) ==
    IF ~\E r \in d.userSettings : r.userId = userId
    THEN [db |-> [d EXCEPT !.userSettings = @ \cup {SettingsRow(userId, DEFAULT_SETTINGS)}],
          settings |-> DEFAULT_SETTINGS]
    ELSE LET row == CHOOSE r \in d.userSettings : r.userId = userId
         IN  [db |-> d,
              settings |->
                  [hourlyWage |-> row.hourlyWage, payFrequency |-> row.payFrequency,
                   currency |-> row.currency,
                   expectedAnnualReturn |-> row.expectedAnnualReturn,
                   jobSatisfaction |-> clamp(row.jobSatisfaction, Num(1), Num(10))]]

(***************************************************************************)
(* Read entry points                                                       *)
(***************************************************************************)
\* getDashboardSummary: const remaining = income - spent
\* A plausible slip: the floor that getInsightsData applies.
dashboardRemaining_floored(income, spent) == RMax(RSub(income, spent), Num(0))

dashboardRemaining(income, spent) == RSub(income, spent)

\* getInsightsData: remaining: Math.max(income - spent30, 0)
insightsRemaining(income, spent30) == RMax(RSub(income, spent30), Num(0))

\* What getDashboardSummary returns for the rows the query gave.
dashboardSummary(userId, settings, expenseRows) ==
    LET income == computeIncomeThisPeriod(settings)
        spent  == Sum(Amounts(expenseRows))
    IN  [op |-> "getDashboardSummary", userId |-> userId, income |-> income,
         currency |-> settings.currency, hourlyWage |-> settings.hourlyWage,
         jobSatisfaction |-> settings.jobSatisfaction,
         stressMultiplier |-> computeStressMultiplier(settings.jobSatisfaction),
         payFrequency |-> settings.payFrequency, spent |-> spent,
         remaining |-> dashboardRemaining(income, spent),
         categoryTotals |->
             TotalsOf([i \in 1..Len(expenseRows) |-> expenseRows[i].category],
                      Amounts(expenseRows), Len(expenseRows)),
         recentExpenses |-> expenseRows]

\* for (let i = from; i >= to; i -= 1) push({date: isoDate(addDays(today, -i)), total})
dailyEntry(date, totalsByDate) == [date |-> date, total |-> TotalsGet(totalsByDate, date)]

dailyTotals(today, from, to, totalsByDate) ==
    [k \in 1..(from - to + 1) |->
        dailyEntry(isoDate(addDays(today, -(from - (k - 1)))), totalsByDate)]

\* The weekend/weekday loop from i down to 0, acc holding the four counters.
\* One pass of the loop body: the day falls to the weekend or the weekdays.
weekAdd(acc, dow, total) ==
    IF dow = 0 \/ dow = 6
    THEN [acc EXCEPT !.weekendTotal = RAdd(@, total), !.weekendDays = @ + 1]
    ELSE [acc EXCEPT !.weekdayTotal = RAdd(@, total), !.weekdayDays = @ + 1]

weekDay(acc, date, totalsByDate) ==
    weekAdd(acc, getDay(LocalMidnight(date)), TotalsGet(totalsByDate, date))

RECURSIVE weekLoop(_, _, _, _)
weekLoop(today, i, totalsByDate, acc) ==
    IF i < 0 THEN acc
    ELSE weekLoop(today, i - 1, totalsByDate,
                  weekDay(acc, isoDate(addDays(today, -i)), totalsByDate))

\* The first day of the 30-day window: isoDate(addDays(today, -29)).
last30Start(today) == isoDate(addDays(today, -29))

\* What getInsightsData returns for the rows the query gave.
insightsData(userId, settings, last30Rows) ==
    LET income == computeIncomeThisPeriod(settings)
        today  == nowT
        spent30 == Sum(Amounts(last30Rows))
        totalsByDate ==
            TotalsOf([i \in 1..Len(last30Rows) |-> last30Rows[i].date],
                     Amounts(last30Rows), Len(last30Rows))
        wk == weekLoop(today, 29, totalsByDate,
                       [weekendTotal |-> Num(0), weekendDays |-> 0,
                        weekdayTotal |-> Num(0), weekdayDays |-> 0])
    IN  [op |-> "getInsightsData", userId |-> userId, income |-> income,
         currency |-> settings.currency, hourlyWage |-> settings.hourlyWage,
         jobSatisfaction |-> settings.jobSatisfaction,
         stressMultiplier |-> computeStressMultiplier(settings.jobSatisfaction),
         spent30 |-> spent30,
         remaining |-> insightsRemaining(income, spent30),
         dailyTotalsLast7 |-> dailyTotals(today, 6, 0, totalsByDate),
         dailyTotalsPrev7 |-> dailyTotals(today, 13, 7, totalsByDate),
         weekendAvg |-> IF wk.weekendDays > 0
                        THEN RDiv(wk.weekendTotal, Num(wk.weekendDays)) ELSE Num(0),
         weekdayAvg |-> IF wk.weekdayDays > 0
                        THEN RDiv(wk.weekdayTotal, Num(wk.weekdayDays)) ELSE Num(0),
         last7Start |-> isoDate(addDays(today, -6)),
         prev7Start |-> isoDate(addDays(today, -13))]

\* The three demo seeds: name, amount, and days since creation.
demoSeeds ==
    <<[name |-> <<"S", "p", "o", "t", "i", "f", "y", " ", "P", "r", "e", "m", "i", "u", "m">>,
       amount |-> Rat(1199, 100), age |-> 120],
      [name |-> <<"N", "e", "t", "f", "l", "i", "x">>,
       amount |-> Rat(1549, 100), age |-> 210],
      [name |-> <<"i", "C", "l", "o", "u", "d", " ", "S", "t", "o", "r", "a", "g", "e">>,
       amount |-> Rat(299, 100), age |-> 365]>>

\* ensureDemoSubscriptions, n being the ids drawn so far.
ensureDemoSubscriptions(d, n) ==
    IF \E x \in d.subscriptions : x.userId = DEMO_USER_ID THEN [db |-> d, uuids |-> n]
    ELSE [db |-> [d EXCEPT !.subscriptions = @ \cup
                     {[id |-> <<"sub", n + k>>, userId |-> DEMO_USER_ID,
                       name |-> demoSeeds[k].name, amount |-> demoSeeds[k].amount,
                       cadence |-> "monthly",
                       nextBillingDate |-> isoDate(addDays(nowT, 14)),
                       createdAt |-> addDays(nowT, -demoSeeds[k].age)] : k \in 1..3}],
          uuids |-> n + 3]

isDemoSeedSubscriptionRow(row) ==
    \E k \in 1..3 :
        /\ row.name = demoSeeds[k].name
        /\ row.cadence = "monthly"
        /\ LET diff == RSub(row.amount, demoSeeds[k].amount)
           IN  RLt(<<Abs(diff[1]), diff[2]>>, Rat(1, 10000))

\* listSubscriptions up to its query: the acting user, and the demo seeds
\* written when the flag asks for them.
listSubscriptionsStart(d, ck, n) ==
    LET c == getCurrentUserId(d, ck)
        e == IF c.userId = DEMO_USER_ID /\ env.seedDemo
             THEN ensureDemoSubscriptions(c.db, n) ELSE [db |-> c.db, uuids |-> n]
    IN  [db |-> e.db, cookie |-> c.cookie, uuids |-> e.uuids, userId |-> c.userId]

\* The orders in which the query of listSubscriptions may return its rows.
subscriptionRows(d, userId) ==
    {Limit(f, 50) : f \in OrderByDesc({x \in d.subscriptions : x.userId = userId}, "createdAt")}

\* listSubscriptions from its query on: the filter and the mapping.
listSubscriptionsRows(userId, rows) ==
    LET filteredRows ==
            IF userId = DEMO_USER_ID /\ ~env.seedDemo
            THEN SelectSeq(rows, LAMBDA r : ~isDemoSeedSubscriptionRow(r))
            ELSE rows
    IN  [i \in 1..Len(filteredRows) |->
            [id |-> filteredRows[i].id, name |-> filteredRows[i].name,
             amount |-> filteredRows[i].amount, cadence |-> filteredRows[i].cadence,
             nextBillingDate |-> filteredRows[i].nextBillingDate,
             createdAt |-> filteredRows[i].createdAt]]

simulateInvestedValue(principal, annualRate, from, to) ==
    LET m == monthsBetween(from, to)
        r == RDiv(annualRate, Num(12))
    IN  RMul(principal, RPow(RAdd(Num(1), r), m))

\* One entry of the items of getGhostCartData.
ghostCartItem(r, settings) ==
    LET stressMultiplier == computeStressMultiplier(settings.jobSatisfaction)
        hourlyWage == settings.hourlyWage
        investedValue ==
            simulateInvestedValue(r.price, settings.expectedAnnualReturn, r.ghostedAt, nowT)
    IN  [id |-> r.id, title |-> r.title, category |-> r.category, price |-> r.price,
         priceMode |-> r.priceMode, imageUrl |-> r.imageUrl, ghostedAt |-> r.ghostedAt,
         investedValue |-> investedValue,
         growth |-> RSub(investedValue, r.price),
         workHoursSaved |->
             IF RGt(hourlyWage, Num(0))
             THEN RMul(RDiv(r.price, hourlyWage), stressMultiplier) ELSE NaN,
         retirementDays |->
             IF RGt(hourlyWage, Num(0))
             THEN RDiv(investedValue, RMul(hourlyWage, Num(8))) ELSE NaN]

\* What getGhostCartData returns for the rows the query gave.
ghostCartData(userId, settings, rows) ==
    LET items == [i \in 1..Len(rows) |-> ghostCartItem(rows[i], settings)]
        originalTotal == Sum([i \in 1..Len(items) |-> items[i].price])
        currentTotal  == Sum([i \in 1..Len(items) |-> items[i].investedValue])
    IN  [op |-> "getGhostCartData", userId |-> userId, currency |-> settings.currency,
         hourlyWage |-> settings.hourlyWage, jobSatisfaction |-> settings.jobSatisfaction,
         stressMultiplier |-> computeStressMultiplier(settings.jobSatisfaction),
         expectedAnnualReturn |-> settings.expectedAnnualReturn,
         originalTotal |-> originalTotal, currentTotal |-> currentTotal,
         growthBonus |-> RSub(currentTotal, originalTotal), items |-> items]

GetDashboardSummary ==
    LET c == getCurrentUserId(db, cookie)
        g == getSettings(c.db, c.userId)
    IN  /\ \E f \in OrderByDesc({e \in g.db.expenses : e.userId = c.userId}, "date") :
              result' = dashboardSummary(c.userId, g.settings, Limit(f, 10))
        /\ db' = g.db
        /\ cookie' = c.cookie
        /\ UNCHANGED <<nowT, env, uuids, call, ret>>

\* Everything getInsightsData may return for a request carrying cookie ck
\* over store d: one value for each order the query may give its rows in.
insightsResults(d, ck) ==
    LET c == getCurrentUserId(d, ck)
        g == getSettings(c.db, c.userId)
    IN  {insightsData(c.userId, g.settings, Limit(f, 500)) :
            f \in OrderByDesc({e \in g.db.expenses :
                                  e.userId = c.userId /\ e.date >= last30Start(nowT)}, "date")}

GetInsightsData ==
    LET c == getCurrentUserId(db, cookie)
        g == getSettings(c.db, c.userId)
    IN  /\ result' \in insightsResults(db, cookie)
        /\ db' = g.db
        /\ cookie' = c.cookie
        /\ UNCHANGED <<nowT, env, uuids, call, ret>>

ListSubscriptions ==
    LET l == listSubscriptionsStart(db, cookie, uuids)
    IN  /\ \E rows \in subscriptionRows(l.db, l.userId) :
              result' = [op |-> "listSubscriptions", userId |-> l.userId,
                         subscriptions |-> listSubscriptionsRows(l.userId, rows)]
        /\ db' = l.db
        /\ cookie' = l.cookie
        /\ uuids' = l.uuids
        /\ UNCHANGED <<nowT, env, call, ret>>

GetSubscriptionDangerData ==
    LET c == getCurrentUserId(db, cookie)
        g == getSettings(c.db, c.userId)
        l == listSubscriptionsStart(g.db, c.cookie, uuids)
    IN  /\ \E rows \in subscriptionRows(l.db, l.userId) :
              result' = [op |-> "getSubscriptionDangerData", userId |-> c.userId,
                         income |-> computeIncomeThisPeriod(g.settings),
                         currency |-> g.settings.currency,
                         hourlyWage |-> g.settings.hourlyWage,
                         jobSatisfaction |-> g.settings.jobSatisfaction,
                         stressMultiplier |->
                             computeStressMultiplier(g.settings.jobSatisfaction),
                         expectedAnnualReturn |-> g.settings.expectedAnnualReturn,
                         subscriptions |-> listSubscriptionsRows(l.userId, rows)]
        /\ db' = l.db
        /\ cookie' = l.cookie
        /\ uuids' = l.uuids
        /\ UNCHANGED <<nowT, env, call, ret>>

\* Everything getGhostCartData may return for a request carrying cookie ck
\* over store d.
ghostCartResults(d, ck) ==
    LET c == getCurrentUserId(d, ck)
        g == getSettings(c.db, c.userId)
    IN  {ghostCartData(c.userId, g.settings, Limit(f, 100)) :
            f \in OrderByDesc({x \in g.db.ghostCartItems : x.userId = c.userId}, "ghostedAt")}

GetGhostCartData ==
    LET c == getCurrentUserId(db, cookie)
        g == getSettings(c.db, c.userId)
    IN  /\ result' \in ghostCartResults(db, cookie)
        /\ db' = g.db
        /\ cookie' = c.cookie
        /\ UNCHANGED <<nowT, env, uuids, call, ret>>

GetMyProfile ==
    LET c == getCurrentUserId(db, cookie)
        g == getSettings(c.db, c.userId)
        rows == {u \in g.db.users : u.id = c.userId}
    IN  /\ result' =
               [op |-> "getMyProfile", isDemo |-> (c.userId = DEMO_USER_ID),
                user |-> IF rows # {}
                         THEN LET u == CHOOSE u \in rows : TRUE
                              IN  [id |-> u.id, name |-> u.name, email |-> u.email]
                         ELSE [id |-> c.userId, name |-> <<>>, email |-> Null],
                settings |-> g.settings]
        /\ db' = g.db
        /\ cookie' = c.cookie
        /\ UNCHANGED <<nowT, env, uuids, call, ret>>

(***************************************************************************)
(* Write entry points.  An input object is a record holding the fields     *)
(* the caller supplied; Has tells whether an optional field is there.      *)
(***************************************************************************)
Has(input, field) == field \in DOMAIN input

\* The most ids and salts one run draws.
MaxUuids == 3

\* A date string that does not parse (the date field left empty).
InvalidDate == -1

\* hashPassword: the scrypt key of the password under the drawn salt.
hashPassword(password, salt) == <<"scrypt", salt, <<"key", password, salt>>>>

normalizeEmail(email) == ToLowerCase(Trim(email))

SignUpOf(inputs) ==
    \E input \in inputs :
        LET name  == Trim(input.name)
            email == normalizeEmail(input.email)
            password == input.password
            fail(msg) ==
                /\ result' = [op |-> "signUp", ok |-> FALSE, error |-> msg]
                /\ UNCHANGED <<db, cookie, uuids>>
        IN  /\ IF name = <<>> THEN fail("Name is required.")
               ELSE IF ~Includes(email, <<"@">>) THEN fail("Invalid email.")
               ELSE IF Len(password) < 8
                    THEN fail("Password must be at least 8 characters.")
               ELSE IF \E u \in db.users : u.email = email
                    THEN fail("Email already in use. Try signing in.")
               ELSE /\ uuids + 2 <= MaxUuids
                    /\ LET userId    == <<"usr", uuids + 1>>
                           sessionId == <<"sess", uuids + 2>>
                       IN  /\ db' = [db EXCEPT
                                  !.users = @ \cup
                                      {[id |-> userId, name |-> name, email |-> email,
                                        passwordHash |-> hashPassword(password, uuids + 1),
                                        createdAt |-> nowT]},
                                  !.userSettings = @ \cup
                                      {SettingsRow(userId, DEFAULT_SETTINGS)},
                                  !.sessions = @ \cup
                                      {[id |-> sessionId, userId |-> userId,
                                        createdAt |-> nowT,
                                        expiresAt |-> nowT + SESSION_TTL_DAYS * 24]}]
                           /\ cookie' = sessionId
                           /\ uuids' = uuids + 2
                           /\ result' = [op |-> "signUp", ok |-> TRUE]
            /\ UNCHANGED <<nowT, env, call, ret>>

\* A plausible slip: the cookie is cleared and the session row is kept.
SignOut_keepsRow ==
    /\ cookie' = NoCookie
    /\ result' = [op |-> "signOut"]
    /\ UNCHANGED <<db, nowT, env, uuids, call, ret>>

SignOut ==
    /\ db' = IF cookie # NoCookie
             THEN [db EXCEPT !.sessions = {x \in @ : x.id # cookie}] ELSE db
    /\ cookie' = NoCookie
    /\ result' = [op |-> "signOut"]
    /\ UNCHANGED <<nowT, env, uuids, call, ret>>

\* The cadence addExpense reads out of the trimmed note.
cadenceOfNote(name) ==
    LET noteLower == ToLowerCase(name)
    IN  IF \/ Includes(noteLower, <<"y", "e", "a", "r", "l", "y">>)
           \/ Includes(noteLower, <<"a", "n", "n", "u", "a", "l">>)
           \/ Includes(noteLower, <<"/", "y", "r">>)
           \/ Includes(noteLower, <<"p", "e", "r", " ", "y", "e", "a", "r">>)
        THEN "yearly" ELSE "monthly"

\* addExpense after the expense row is written: the subscription upsert.
upsertSubscription(d, userId, input, n) ==
    IF input.category # "subscriptions" THEN [db |-> d, uuids |-> n]
    ELSE LET name == Trim(IF Has(input, "note") THEN input.note ELSE <<>>)
         IN  IF name = <<>> THEN [db |-> d, uuids |-> n]
             ELSE LET cadence   == cadenceOfNote(name)
                      createdAt == IF input.date # InvalidDate
                                   THEN LocalMidnight(input.date) ELSE nowT
                      nextBillingDate ==
                          isoDate(setMonthPlus(createdAt,
                                               IF cadence = "yearly" THEN 12 ELSE 1))
                  IN  IF \E x \in d.subscriptions : x.userId = userId /\ x.name = name
                      THEN [db |-> [d EXCEPT !.subscriptions =
                                       {IF x.userId = userId /\ x.name = name
                                        THEN [x EXCEPT !.amount = input.amount,
                                                       !.cadence = cadence,
                                                       !.nextBillingDate = nextBillingDate]
                                        ELSE x : x \in @}],
                            uuids |-> n]
                      ELSE [db |-> [d EXCEPT !.subscriptions = @ \cup
                                       {[id |-> <<"sub", n + 1>>, userId |-> userId,
                                         name |-> name, amount |-> input.amount,
                                         cadence |-> cadence,
                                         nextBillingDate |-> nextBillingDate,
                                         createdAt |-> createdAt]}],
                            uuids |-> n + 1]

AddExpenseOf(inputs) ==
    \E input \in inputs :
        LET c  == getCurrentUserId(db, cookie)
            d1 == [c.db EXCEPT !.expenses = @ \cup
                      {[id |-> <<"exp", uuids + 1>>, userId |-> c.userId,
                        amount |-> input.amount, category |-> input.category,
                        date |-> input.date,
                        note |-> IF Has(input, "note") THEN input.note ELSE Null,
                        createdAt |-> nowT]}]
            u  == upsertSubscription(d1, c.userId, input, uuids + 1)
        IN  /\ u.uuids <= MaxUuids
            /\ db' = u.db
            /\ cookie' = c.cookie
            /\ uuids' = u.uuids
            /\ result' = [op |-> "addExpense"]
            /\ UNCHANGED <<nowT, env, call, ret>>

\* A numeric column declared NOT NULL refuses NaN, which the store keeps as
\* NULL: the statement fails and the handler throws.
Storable(x) == ~IsNaN(x)

UpdateMySettingsOf(inputs) ==
    \E input \in inputs :
        LET c == getCurrentUserId(db, cookie)
            g == getSettings(c.db, c.userId)
            current == g.settings
            next ==
                [hourlyWage |->
                     IF Has(input, "hourlyWage")
                     THEN clamp(input.hourlyWage, Num(0), Num(10000))
                     ELSE current.hourlyWage,
                 payFrequency |->
                     IF Has(input, "payFrequency") THEN input.payFrequency
                     ELSE current.payFrequency,
                 currency |->
                     IF Has(input, "currency") THEN input.currency ELSE current.currency,
                 expectedAnnualReturn |->
                     IF Has(input, "expectedAnnualReturn")
                     THEN clamp(input.expectedAnnualReturn, Num(0), Num(1))
                     ELSE current.expectedAnnualReturn,
                 jobSatisfaction |->
                     IF Has(input, "jobSatisfaction")
                     THEN clamp(input.jobSatisfaction, Num(1), Num(10))
                     ELSE current.jobSatisfaction]
        IN  /\ IF /\ Storable(next.hourlyWage)
                  /\ Storable(next.expectedAnnualReturn)
                  /\ Storable(next.jobSatisfaction)
               THEN /\ db' = [g.db EXCEPT !.userSettings =
                                 {r \in @ : r.userId # c.userId}
                                     \cup {SettingsRow(c.userId, next)}]
                    /\ result' = [op |-> "updateMySettings", threw |-> FALSE,
                                  settings |-> next]
               ELSE /\ db' = g.db
                    /\ result' = [op |-> "updateMySettings", threw |-> TRUE]
            /\ cookie' = c.cookie
            /\ UNCHANGED <<nowT, env, uuids, call, ret>>

Other == <<"o", "t", "h", "e", "r">>

Placeholder ==
    <<"/", "p", "l", "a", "c", "e", "h", "o", "l", "d", "e", "r", ".", "s", "v", "g">>

addGhostCartItem(input) ==
        LET c     == getCurrentUserId(db, cookie)
            title == Trim(input.title)
            price == clamp(input.price, Num(0), Num(1000000))
            category == IF Trim(input.category) = <<>> THEN Other ELSE Trim(input.category)
            imageUrl == IF Trim(input.imageUrl) = <<>> THEN Placeholder
                        ELSE Trim(input.imageUrl)
            priceMode == IF input.priceMode = "manual" THEN "manual" ELSE "auto"
            ghostedAt == IF Has(input, "ghostedAt") /\ input.ghostedAt # InvalidDate
                         THEN input.ghostedAt ELSE nowT
        IN  /\ IF title = <<>>
               THEN /\ result' = [op |-> "addGhostCartItem", ok |-> FALSE,
                                  error |-> "Title is required."]
                    /\ db' = c.db
                    /\ uuids' = uuids
               ELSE IF ~IsFinite(price) \/ RLe(price, Num(0))
               THEN /\ result' = [op |-> "addGhostCartItem", ok |-> FALSE,
                                  error |-> "Price must be > 0."]
                    /\ db' = c.db
                    /\ uuids' = uuids
               ELSE /\ uuids + 1 <= MaxUuids
                    /\ db' = [c.db EXCEPT !.ghostCartItems = @ \cup
                                 {[id |-> <<"ghost", uuids + 1>>, userId |-> c.userId,
                                   title |-> title, category |-> category,
                                   price |-> price, priceMode |-> priceMode,
                                   imageUrl |-> imageUrl, ghostedAt |-> ghostedAt]}]
                    /\ uuids' = uuids + 1
                    /\ result' = [op |-> "addGhostCartItem", ok |-> TRUE]
            /\ cookie' = c.cookie
            /\ UNCHANGED <<nowT, env>>

\* The handler called with one of the given inputs.
AddGhostCartItemOf(inputs) ==
    \E input \in inputs : addGhostCartItem(input) /\ UNCHANGED <<call, ret>>

(***************************************************************************)
(* The environment: the clock and the browser                              *)
(***************************************************************************)
\* Time passes: the clock moves on by one of the given numbers of hours,
\* up to the last instant considered.
TickOf(steps, last) ==
    /\ \E h \in steps : nowT + h <= last /\ nowT' = nowT + h
    /\ UNCHANGED <<db, cookie, env, uuids, result, call, ret>>

\* A tc_session value that names no session the store ever issued.
StaleCookie == <<"sess", 0>>

\* The browser sends whatever tc_session cookie it holds: the id of a
\* stored session, or a value that names none.
PresentCookie ==
    /\ cookie' \in {x.id : x \in db.sessions} \cup {StaleCookie}
    /\ cookie' # cookie
    /\ UNCHANGED <<db, nowT, env, uuids, result, call, ret>>

(***************************************************************************)
(* Insights page: the financial health score                               *)
(***************************************************************************)
\* A plausible slip: the income > 0 guard is dropped.
spendRate_unguarded(income, spent) == RDiv(spent, income)

spendRate(income, spent) ==
    IF RGt(income, Num(0)) THEN RDiv(spent, income) ELSE Num(0)

\* A plausible slip: the size of the remainder is rewarded, not its sign.
remainingRate_magnitude(income, remaining) ==
    IF RGt(income, Num(0)) THEN RDiv(<<Abs(remaining[1]), remaining[2]>>, income) ELSE Num(0)

remainingRate(income, remaining) ==
    IF RGt(income, Num(0)) THEN RDiv(remaining, income) ELSE Num(0)

\* A plausible slip: the final clamp to [0, 100] is left out.
score_unclamped(income, spent, remaining) ==
    RAdd(RSub(Num(100), clamp(RMul(spendRate(income, spent), Num(70)), Num(0), Num(70))),
         clamp(RMul(remainingRate(income, remaining), Num(20)), Num(0), Num(20)))

score(income, spent, remaining) ==
    LET s0 == Num(100)
        s1 == RSub(s0, clamp(RMul(spendRate(income, spent), Num(70)), Num(0), Num(70)))
        s2 == RAdd(s1, clamp(RMul(remainingRate(income, remaining), Num(20)), Num(0), Num(20)))
    IN  clamp(s2, Num(0), Num(100))

\* Gauge: the score as drawn, clamped again and rounded.
Gauge(sc) == RRound(clamp(sc, Num(0), Num(100)))

\* Money amounts the score is exercised on: multiples of 50 either side of
\* zero, the default income 30 * 80, and a value that is no multiple.
MaxUnits == 3

ScoreInputs ==
    {Num(50 * k) : k \in (-MaxUnits)..MaxUnits} \cup {Num(2400), Rat(1, 3)}

ScoreCall(i, s, r) == [fn |-> "score", income |-> i, spent |-> s, remaining |-> r]

InitScore ==
    /\ StoreIdle
    /\ \E i \in ScoreInputs, s \in ScoreInputs, r \in ScoreInputs :
          /\ call = ScoreCall(i, s, r)
          /\ ret = score(i, s, r)

\* The memo recomputes the score whenever one of its inputs changes.
SetIncome ==
    /\ \E i \in ScoreInputs :
          /\ call' = [call EXCEPT !.income = i]
          /\ ret' = score(i, call.spent, call.remaining)
    /\ UNCHANGED storeVars

SetSpent ==
    /\ \E s \in ScoreInputs :
          /\ call' = [call EXCEPT !.spent = s]
          /\ ret' = score(call.income, s, call.remaining)
    /\ UNCHANGED storeVars

SetRemaining ==
    /\ \E r \in ScoreInputs :
          /\ call' = [call EXCEPT !.remaining = r]
          /\ ret' = score(call.income, call.spent, r)
    /\ UNCHANGED storeVars

NextScore == SetIncome \/ SetSpent \/ SetRemaining

SpecScore == InitScore /\ [][NextScore]_vars

\* C1: for every income, spent and remaining the health score, and the value
\* the gauge draws from it, lie in the closed range [0, 100].
C1_ScoreInRange ==
    call.fn = "score" =>
        /\ RLe(Num(0), ret) /\ RLe(ret, Num(100))
        /\ RLe(Num(0), Gauge(ret)) /\ RLe(Gauge(ret), Num(100))

\* C1 witness: a score computed with spent > income, and one with income <= 0
\* and a negative remaining, are both among the reachable states; this is the
\* overspent one with a negative remaining.
C1_Witness ==
    /\ call.fn = "score"
    /\ RGt(call.income, Num(0))
    /\ RGt(call.spent, call.income)
    /\ RLt(call.remaining, Num(0))
    /\ ret = Num(30)

\* C5: with income fixed, raising spent (remaining unchanged) never raises the
\* score, and raising remaining (spent unchanged) never lowers it.
C5_ScoreMonotone ==
    [][(call.fn = "score" /\ call'.income = call.income) =>
          /\ (call'.remaining = call.remaining /\ RLe(call.spent, call'.spent))
                => RLe(ret', ret)
          /\ (call'.spent = call.spent /\ RLe(call.remaining, call'.remaining))
                => RGe(ret', ret)]_vars

\* C5 witness: a score strictly inside the scale, where both the spend
\* penalty and the remaining reward are unsaturated and so can still move.
C5_Witness ==
    /\ call.fn = "score"
    /\ RGt(call.income, Num(0))
    /\ RGt(call.spent, Num(0)) /\ RLt(call.spent, call.income)
    /\ RGt(call.remaining, Num(0)) /\ RLt(call.remaining, call.income)
    /\ RLt(Num(30), ret) /\ RLt(ret, Num(100))

\* C6: with income <= 0 both rates are taken as 0 and the score is exactly
\* 100, whatever spent and remaining are.
C6_ZeroIncomeScore ==
    (call.fn = "score" /\ RLe(call.income, Num(0))) =>
        /\ spendRate(call.income, call.spent) = Num(0)
        /\ remainingRate(call.income, call.remaining) = Num(0)
        /\ ret = Num(100)

\* C6 witness: income is exactly 0 while spent is positive and remaining is
\* negative.
C6_Witness ==
    /\ call.fn = "score"
    /\ call.income = Num(0)
    /\ RGt(call.spent, Num(0))
    /\ RLt(call.remaining, Num(0))
    /\ ret = Num(100)

(***************************************************************************)
(* Subscription danger centre: compound growth helpers                     *)
(***************************************************************************)
\* A plausible slip: a month earns the rate of a year.
compoundMonthly_yearly(balance, annualRate) == RMul(balance, RAdd(Num(1), annualRate))

compoundMonthly(balance, annualRate) ==
    LET r == RDiv(annualRate, Num(12))
    IN  RMul(balance, RAdd(Num(1), r))

\* A plausible slip: the guard against a zero monthly rate is left out.
futureValueMonthly_unguarded(monthly, annualRate, months) ==
    LET r == RDiv(annualRate, Num(12))
    IN  RMul(monthly, RDiv(RSub(RPow(RAdd(Num(1), r), months), Num(1)), r))

futureValueMonthly(monthly, annualRate, months) ==
    LET r == RDiv(annualRate, Num(12))
    IN  IF ~IsFinite(r) \/ r = Num(0) THEN RMul(monthly, Num(months))
        ELSE RMul(monthly, RDiv(RSub(RPow(RAdd(Num(1), r), months), Num(1)), r))

\* The loop of projectCurve from month m on, v being the value of month m - 1.
RECURSIVE projectCurveLoop(_, _, _, _, _)
projectCurveLoop(m, months, v, monthlyContribution, annualRate) ==
    IF m > months THEN <<>>
    ELSE LET next == RAdd(compoundMonthly(v, annualRate), monthlyContribution)
         IN  <<[month |-> m, value |-> next]>>
                \o projectCurveLoop(m + 1, months, next, monthlyContribution, annualRate)

\* A plausible slip: a withdrawal (negative contribution) is clamped to 0.
projectCurve_clamped(months, initial, monthlyContribution, annualRate) ==
    <<[month |-> 0, value |-> initial]>>
        \o projectCurveLoop(1, months, initial, RMax(Num(0), monthlyContribution), annualRate)

projectCurve(months, initial, monthlyContribution, annualRate) ==
    <<[month |-> 0, value |-> initial]>>
        \o projectCurveLoop(1, months, initial, monthlyContribution, annualRate)

\* The longest projection exercised (the page itself asks for 120 months).
MaxMonths == 3

CurveMonths == 0..MaxMonths

\* Annual rates: none, 30% (2.5% a month), 60% (5% a month), 100%.
CurveRates == {Num(0), Rat(3, 10), Rat(6, 10), Num(1)}

CurveInitials == {Num(0), Num(1), Num(100)}

\* Monthly contributions, a withdrawal among them.
CurveContributions == {Num(-50), Num(0), Num(25), Rat(1, 2)}

ProjectCurve ==
    /\ \E months \in CurveMonths, initial \in CurveInitials,
          c \in CurveContributions, rate \in CurveRates :
          /\ call' = [fn |-> "projectCurve", months |-> months, initial |-> initial,
                      monthlyContribution |-> c, annualRate |-> rate]
          /\ ret' = projectCurve(months, initial, c, rate)
    /\ UNCHANGED storeVars

FutureValueMonthly ==
    /\ \E monthly \in CurveContributions, rate \in CurveRates, months \in CurveMonths :
          /\ call' = [fn |-> "futureValueMonthly", monthly |-> monthly,
                      annualRate |-> rate, months |-> months]
          /\ ret' = futureValueMonthly(monthly, rate, months)
    /\ UNCHANGED storeVars

InitCurve == StoreIdle /\ call = NoCall /\ ret = Num(0)

NextCurve == ProjectCurve \/ FutureValueMonthly

SpecCurve == InitCurve /\ [][NextCurve]_vars

\* C8: projectCurve returns months + 1 points with month indices 0..months in
\* order; point 0 carries the initial value and every later point is the
\* previous value times (1 + annualRate / 12) plus the monthly contribution,
\* a negative contribution included as it is; for months = 0 the result is
\* the single point (0, initial).
C8_ProjectCurveShape ==
    call.fn = "projectCurve" =>
        /\ Len(ret) = call.months + 1
        /\ \A k \in 1..Len(ret) : ret[k].month = k - 1
        /\ ret[1].value = call.initial
        /\ \A k \in 2..Len(ret) :
              ret[k].value =
                  RAdd(RMul(ret[k - 1].value,
                            RAdd(Num(1), RDiv(call.annualRate, Num(12)))),
                       call.monthlyContribution)
        /\ call.months = 0 => ret = <<[month |-> 0, value |-> call.initial]>>

\* C8 witness: a projection of at least two months with a withdrawal that
\* takes the balance below zero.
C8_Witness ==
    /\ call.fn = "projectCurve"
    /\ call.months >= 2
    /\ RLt(call.monthlyContribution, Num(0))
    /\ RGt(call.annualRate, Num(0))
    /\ RGt(call.initial, Num(0))
    /\ RLt(ret[Len(ret)].value, Num(0))

\* C9: with r = annualRate / 12, futureValueMonthly is
\* monthly * ((1 + r)^months - 1) / r (stated multiplied through by r), and
\* for r = 0 it is monthly * months, a number and not the NaN of 0 / 0.
C9_FutureValueClosedForm ==
    call.fn = "futureValueMonthly" =>
        LET r == RDiv(call.annualRate, Num(12))
        IN  /\ r # Num(0) =>
                  RMul(ret, r) =
                      RMul(call.monthly, RSub(RPow(RAdd(Num(1), r), call.months), Num(1)))
            /\ r = Num(0) => ret = RMul(call.monthly, Num(call.months))
            /\ IsFinite(ret)

\* C9 witness: the zero-rate case with a positive payment over several months.
C9_Witness ==
    /\ call.fn = "futureValueMonthly"
    /\ call.annualRate = Num(0)
    /\ call.months >= 2
    /\ RGt(call.monthly, Num(0))
    /\ ret = RMul(call.monthly, Num(call.months))

(***************************************************************************)
(* Specification of the settings: job satisfaction and stress multiplier   *)
(***************************************************************************)
\* The first instant considered: 2025-03-31T01:00Z (day 455 is 2025-03-31).
Now0 == 24 * 455 + 1

\* How far outside 1..10 the stored and the submitted satisfactions reach.
SatisfactionSpread == 2

SatisfactionValues ==
    {Num(k) : k \in (1 - SatisfactionSpread)..(10 + SatisfactionSpread)}
        \cup {Rat(3, 2), Rat(15, 2), Rat(19, 2)}

\* What a caller may pass as jobSatisfaction: any number at all.
SatisfactionInputs ==
    {[jobSatisfaction |-> x] : x \in SatisfactionValues \cup {Infinity, NegInfinity, NaN}}
        \cup {[hourlyWage |-> Num(0)]}

\* The demo user with a settings row whose job_satisfaction is any number:
\* the column carries no CHECK constraint, so the store may hold a value the
\* handlers themselves would never write.
InitSettings ==
    /\ \E x \in SatisfactionValues :
          db = [EmptyDb EXCEPT
                  !.users = {[id |-> DEMO_USER_ID, name |-> DemoUserName,
                              email |-> Null, passwordHash |-> Null,
                              createdAt |-> Now0]},
                  !.userSettings =
                      {[userId |-> DEMO_USER_ID, hourlyWage |-> Num(30),
                        payFrequency |-> "biweekly", currency |-> "CAD",
                        expectedAnnualReturn |-> Rat(8, 100), inflationAdjusted |-> 0,
                        jobSatisfaction |-> x, updatedAt |-> Now0]}]
    /\ cookie = NoCookie
    /\ nowT = Now0
    /\ env = UtcEnv
    /\ uuids = 0
    /\ result = NoResult
    /\ call = NoCall
    /\ ret = Num(0)

UpdateMySettings == UpdateMySettingsOf(SatisfactionInputs)

NextSettings ==
    \/ UpdateMySettings
    \/ GetDashboardSummary
    \/ GetInsightsData
    \/ GetSubscriptionDangerData
    \/ GetGhostCartData
    \/ GetMyProfile

SpecSettings == InitSettings /\ [][NextSettings]_vars

InUnitRange(js) == RLe(Num(1), js) /\ RLe(js, Num(10))

StressOk(js, sm) ==
    /\ InUnitRange(js)
    /\ RLe(Num(1), sm) /\ RLe(sm, Rat(19, 10))
    /\ js = Num(10) => sm = Num(1)
    /\ js = Num(1) => sm = Rat(19, 10)

\* C7: whatever jobSatisfaction the store holds and whatever updateMySettings
\* was given, the jobSatisfaction the handlers work with lies in [1, 10] and
\* the stress multiplier they return lies in [1.0, 1.9], being exactly 1.0
\* for satisfaction 10 and exactly 1.9 for satisfaction 1.
C7_StressMultiplierRange ==
    /\ \A r \in db.userSettings :
          LET js == getSettings(db, r.userId).settings.jobSatisfaction
          IN  StressOk(js, computeStressMultiplier(js))
    /\ result.op \in {"getDashboardSummary", "getInsightsData", "getGhostCartData",
                      "getSubscriptionDangerData"}
          => StressOk(result.jobSatisfaction, result.stressMultiplier)
    /\ result.op = "getMyProfile" => InUnitRange(result.settings.jobSatisfaction)
    /\ (result.op = "updateMySettings" /\ ~result.threw)
          => InUnitRange(result.settings.jobSatisfaction)

\* C7 witness: the store holds a satisfaction below 1 for the acting user and
\* a read has returned the multiplier 1.9 of satisfaction 1.
C7_Witness ==
    /\ result.op = "getInsightsData"
    /\ \E r \in db.userSettings :
          r.userId = result.userId /\ RLt(r.jobSatisfaction, Num(1))
    /\ result.jobSatisfaction = Num(1)
    /\ result.stressMultiplier = Rat(19, 10)

(***************************************************************************)
(* Specification of the store: accounts, sessions, the ledger, the reads   *)
(***************************************************************************)
\* A sign-up whose name and e-mail need trimming and lower-casing, and one
\* whose password is too short.
SignUpInputs ==
    {[name |-> <<" ", "A", "n", "n">>, email |-> <<"A", "@", "x", ".", "i", "o", " ">>,
      password |-> pw] :
        pw \in {<<"p", "a", "s", "s", "w", "o", "r", "d">>, <<"p", "w">>}}

\* An expense above the default income of 30 * 80 dated today, and a
\* subscription payment.
ExpenseInputs ==
    {[amount |-> Num(3000), category |-> "food", date |-> isoDate(nowT)],
     [amount |-> Rat(1549, 100), category |-> "subscriptions", date |-> isoDate(nowT),
      note |-> <<" ", "N", "e", "t", "f", "l", "i", "x", " ", "Y", "e", "a", "r", "l", "y">>]}

Tv == <<"T", "V">>

GhostInputs ==
    {[title |-> Tv, price |-> Num(500), category |-> <<>>, imageUrl |-> <<>>,
      priceMode |-> "auto"]}

InitStore ==
    /\ db = EmptyDb
    /\ cookie = NoCookie
    /\ nowT = Now0
    /\ env \in {[UtcEnv EXCEPT !.seedDemo = b] : b \in BOOLEAN}
    /\ uuids = 0
    /\ result = NoResult
    /\ call = NoCall
    /\ ret = Num(0)

SignUp == SignUpOf(SignUpInputs)

AddExpense == AddExpenseOf(ExpenseInputs)

AddGhostCartItem == AddGhostCartItemOf(GhostInputs)

\* 31 days pass, once: every session issued before is then expired.
Tick == TickOf({24 * (SESSION_TTL_DAYS + 1)}, Now0 + 24 * (SESSION_TTL_DAYS + 1))

\* A call of one of the read entry points.
ReadStep ==
    \/ GetDashboardSummary
    \/ GetInsightsData
    \/ GetSubscriptionDangerData
    \/ ListSubscriptions
    \/ GetGhostCartData
    \/ GetMyProfile

Next ==
    \/ ReadStep
    \/ SignUp
    \/ SignOut
    \/ AddExpense
    \/ AddGhostCartItem
    \/ Tick
    \/ PresentCookie

Spec == InitStore /\ [][Next]_vars

\* C2: the remaining value both getDashboardSummary and getInsightsData
\* return is the signed difference income - spent of the totals they report,
\* negative whenever spent exceeds income.
C2_RemainingSigned ==
    /\ result.op = "getDashboardSummary"
          => result.remaining = RSub(result.income, result.spent)
    /\ result.op = "getInsightsData"
          => result.remaining = RSub(result.income, result.spent30)

\* The entry points C3 is about, as the op field of what they return.
ReadOps ==
    {"getDashboardSummary", "getInsightsData", "getSubscriptionDangerData",
     "listSubscriptions", "getGhostCartData", "getMyProfile"}

ActingUser == getCurrentUserId(db, cookie).userId

IsDefaultSettingsRow(r) ==
    /\ r.hourlyWage = DEFAULT_SETTINGS.hourlyWage
    /\ r.payFrequency = DEFAULT_SETTINGS.payFrequency
    /\ r.currency = DEFAULT_SETTINGS.currency
    /\ r.expectedAnnualReturn = DEFAULT_SETTINGS.expectedAnnualReturn
    /\ r.jobSatisfaction = DEFAULT_SETTINGS.jobSatisfaction

DstSwitch == 24 * 454 + 1

\* Standard offsets from UTC, in hours, and the changes of offset at the
\* switch (clocks set forward, left alone, set back).
ZoneOffsets == {-5, 0, 1}

ZoneShifts == {-1, 0, 1}

ZoneEnvs ==
    {[tzStd |-> o, tzSwitch |-> DstSwitch, tzDelta |-> sh, seedDemo |-> FALSE] :
        o \in ZoneOffsets, sh \in ZoneShifts}

\* The first day the clock is read on, 2025-03-29, the hours of the day it
\* is read at, and the number of days it then runs on for.
DatesStart == 24 * 453

HoursOfDay == {0, 12, 23}

MaxDays == 2

\* An expense dated today, the default of the dashboard form, and one dated
\* a week back.
DatedExpenseInputs ==
    {[amount |-> Num(10), category |-> "food", date |-> isoDate(nowT)],
     [amount |-> Rat(5, 2), category |-> "other", date |-> isoDate(nowT) - 7]}

InitDates ==
    /\ db = EmptyDb
    /\ cookie = NoCookie
    /\ nowT \in {DatesStart + h : h \in HoursOfDay}
    /\ env \in ZoneEnvs
    /\ uuids = 0
    /\ result = NoResult
    /\ call = NoCall
    /\ ret = Num(0)

AddDatedExpense == AddExpenseOf(DatedExpenseInputs)

TickDay == TickOf({24}, DatesStart + 24 * MaxDays + 23)

NextDates ==
    \/ AddDatedExpense
    \/ GetInsightsData
    \/ TickDay

SpecDates == InitDates /\ [][NextDates]_vars

\* The sum of the amounts of a set of expense rows.
RECURSIVE AmountOfRows(_)
AmountOfRows(S) ==
    IF S = {} THEN Num(0)
    ELSE LET x == CHOOSE x \in S : TRUE
         IN  RAdd(x.amount, AmountOfRows(S \ {x}))

\* A window of getInsightsData holds one entry for each of the n days ending
\* on day last, oldest first, each with the total of the user's expenses
\* dated that day.
IsDailyWindow(w, n, last, userId) ==
    /\ Len(w) = n
    /\ \A k \in 1..n :
          /\ w[k].date = last - n + k
          /\ w[k].total =
                 AmountOfRows({e \in db.expenses : e.userId = userId /\ e.date = w[k].date})

\* C4: whatever the instant and the zone, a change of offset inside the
\* window included, the two windows getInsightsData returns hold seven
\* consecutive calendar days each, oldest first, the last seven ending on
\* today (the day isoDate gives for the instant of the call) and the seven
\* before ending the day before they start, every entry carrying the total
\* of the user's expenses dated that day: no day skipped, doubled or merged.
C4_DailyWindows ==
    \A r \in insightsResults(db, cookie) :
        /\ IsDailyWindow(r.dailyTotalsLast7, 7, isoDate(nowT), r.userId)
        /\ IsDailyWindow(r.dailyTotalsPrev7, 7, isoDate(nowT) - 7, r.userId)

(***************************************************************************)
(* Specification of the ghost cart: items added, the clock running over    *)
(* month ends, the expected return changed, the cart read                  *)
(***************************************************************************)
\* The instant the clock starts at: 2025-01-31T22:00Z, the first of February
\* already in a zone three hours east.
GhostStart == 24 * 396 + 22

EastEnv == [tzStd |-> 3, tzSwitch |-> 0, tzDelta |-> 0, seedDemo |-> FALSE]

\* The expected annual returns the settings row holds at the start.
GhostRates == {Num(0), Rat(6, 10)}

\* The clock moves on sixteen days at a time, MaxTicks times at most.
MaxTicks == 2

\* A cart item ghosted now, one dated the last day of 2024, one dated six
\* weeks ahead, and one whose date does not parse.
GhostDatedInputs ==
    {[title |-> Tv, price |-> Num(500), category |-> <<>>, imageUrl |-> <<>>,
      priceMode |-> "auto"],
     [title |-> Tv, price |-> Num(500), category |-> <<>>, imageUrl |-> <<>>,
      priceMode |-> "auto", ghostedAt |-> GhostStart - 24 * 31],
     [title |-> Tv, price |-> Rat(99, 2), category |-> <<>>, imageUrl |-> <<>>,
      priceMode |-> "manual", ghostedAt |-> GhostStart + 24 * 45],
     [title |-> Tv, price |-> Num(500), category |-> <<>>, imageUrl |-> <<>>,
      priceMode |-> "auto", ghostedAt |-> InvalidDate]}

\* What a caller may pass as expectedAnnualReturn.
RateInputs == {[expectedAnnualReturn |-> Rat(3, 2)]}

InitGhost ==
    /\ \E x \in GhostRates :
          db = [EmptyDb EXCEPT
                  !.users = {[id |-> DEMO_USER_ID, name |-> DemoUserName,
                              email |-> Null, passwordHash |-> Null,
                              createdAt |-> GhostStart]},
                  !.userSettings =
                      {[userId |-> DEMO_USER_ID, hourlyWage |-> Num(30),
                        payFrequency |-> "biweekly", currency |-> "CAD",
                        expectedAnnualReturn |-> x, inflationAdjusted |-> 0,
                        jobSatisfaction |-> Num(7), updatedAt |-> GhostStart]}]
    /\ cookie = NoCookie
    /\ nowT = GhostStart
    /\ env \in {UtcEnv, EastEnv}
    /\ uuids = 0
    /\ result = NoResult
    /\ call = NoCall
    /\ ret = Num(0)

\* The most items the cart comes to hold.
MaxItems == 2

AddDatedGhostCartItem ==
    /\ Cardinality(db.ghostCartItems) < MaxItems
    /\ AddGhostCartItemOf(GhostDatedInputs)

UpdateMyReturn == UpdateMySettingsOf(RateInputs)

TickFortnight == TickOf({24 * 16}, GhostStart + 24 * 16 * MaxTicks)

NextGhost ==
    \/ AddDatedGhostCartItem
    \/ UpdateMyReturn
    \/ TickFortnight
    \/ GetGhostCartData

SpecGhost == InitGhost /\ [][NextGhost]_vars

\* The local calendar day of an instant.
LocalDay(t) == DayOf(ToLocal(t))

\* The first days of the months of 2024, 2025 and 2026, as day numbers.
MonthStartDays == {MonthStart(y, m) : y \in 2024..2026, m \in 0..11}

\* The number of month starts the local calendar passes from instant a to
\* instant b: the first days of a month later than a's day and no later
\* than b's.
MonthStartsPassed(a, b) ==
    Cardinality({d \in MonthStartDays : LocalDay(a) < d /\ d <= LocalDay(b)})

\* m successive monthly compounding steps applied to a value.
RECURSIVE CompoundSteps(_, _, _)
CompoundSteps(value, annualRate, m) ==
    IF m = 0 THEN value ELSE compoundMonthly(CompoundSteps(value, annualRate, m - 1), annualRate)

\* The expected annual return the store holds for a user.
StoredReturn(userId) ==
    (CHOOSE r \in db.userSettings : r.userId = userId).expectedAnnualReturn

\* C10: in whatever getGhostCartData returns, at any instant and whatever
\* the stored return, every item carries the stored price and date, its
\* investedValue is the stored price after as many monthly compounding
\* steps as month starts have passed since ghostedAt (the day of the month
\* playing no part), which is the price itself for an item ghosted in the
\* current month or in the future, and its growth is investedValue - price.
C10_InvestedValue ==
    \A r \in ghostCartResults(db, cookie) :
        /\ Len(r.items) = Cardinality({x \in db.ghostCartItems : x.userId = r.userId})
        /\ \A k \in 1..Len(r.items) :
              \E row \in db.ghostCartItems :
                  /\ row.id = r.items[k].id
                  /\ row.userId = r.userId
                  /\ r.items[k].price = row.price
                  /\ r.items[k].ghostedAt = row.ghostedAt
                  /\ r.items[k].investedValue =
                         CompoundSteps(row.price, StoredReturn(r.userId),
                                       MonthStartsPassed(row.ghostedAt, nowT))
                  /\ (row.ghostedAt >= nowT \/ MonthStartsPassed(row.ghostedAt, nowT) = 0)
                        => r.items[k].investedValue = row.price
                  /\ r.items[k].growth = RSub(r.items[k].investedValue, row.price)

\* C10 witness: the cart has been read when it holds an item dated the last
\* day of 2024 that has grown by two steps at 0.6 a year, 500 * (21/20)^2,
\* and an item dated ahead of the clock that has not grown at all.
C10_Witness ==
    /\ result.op = "getGhostCartData"
    /\ result \in ghostCartResults(db, cookie)
    /\ result.expectedAnnualReturn = Rat(6, 10)
    /\ \E i, j \in 1..Len(result.items) :
          /\ result.items[i].ghostedAt = GhostStart - 24 * 31
          /\ result.items[i].investedValue = Rat(500 * 441, 400)
          /\ result.items[i].growth = Rat(500 * 41, 400)
          /\ result.items[j].ghostedAt > nowT
          /\ result.items[j].growth = Num(0)

(***************************************************************************)
(* Item page: the effective price, the work time and the two-year split    *)
(* comparison                                                              *)
(***************************************************************************)
\* A plausible slip: the second year's 15% is taken off the purchase price,
\* not off what is left after the first year.
resaleValueAfterTwoYears_flat(purchasePrice) ==
    [year1 |-> RMul(purchasePrice, RSub(Num(1), Rat(35, 100))),
     year2 |-> RMul(purchasePrice, RSub(RSub(Num(1), Rat(35, 100)), Rat(15, 100)))]

resaleValueAfterTwoYears(purchasePrice) ==
    LET year1 == RMul(purchasePrice, RSub(Num(1), Rat(35, 100)))
        year2 == RMul(year1, RSub(Num(1), Rat(15, 100)))
    IN  [year1 |-> year1, year2 |-> year2]

investedValueAfterTwoYears(purchasePrice, annualRate) ==
    [year1 |-> RMul(purchasePrice, RAdd(Num(1), annualRate)),
     year2 |-> RMul(purchasePrice, RPow(RAdd(Num(1), annualRate), 2)),
     annualRate |-> annualRate]

\* The price the page works with; st.manualPrice is Number(manualPrice).
effectivePrice(st) ==
    IF st.priceMode = "auto" THEN st.defaultPrice
    ELSE IF IsFinite(st.manualPrice) /\ RGt(st.manualPrice, Num(0)) THEN st.manualPrice
    ELSE Null

\* The 2-year split comparison as the page draws it for a price.
splitComparison(price, expectedAnnualReturn) ==
    LET resale == resaleValueAfterTwoYears(price)
        invest == investedValueAfterTwoYears(price, expectedAnnualReturn)
        delta  == RSub(invest.year2, resale.year2)
    IN  [resale |-> resale, invest |-> invest, delta |-> delta,
         opportunityCost |-> RMax(delta, Num(0))]

\* The placeholder the pages print for a value that is not available: the
\* em dash (U+2014), written here in ASCII.
Dash == "-"

\* Number.prototype.toFixed(digits) of a finite number, for digits 0 and 1:
\* the magnitude is rounded half up at that digit and a negative number
\* keeps its sign.
toFixed(x, digits) ==
    LET scale == IF digits = 0 THEN 1 ELSE 10
        a == RRound(RMul(IF RLt(x, Num(0)) THEN RNeg(x) ELSE x, Num(scale)))[1]
    IN  (IF RLt(x, Num(0)) THEN "-" ELSE "") \o ToString(a \div scale)
            \o (IF digits = 0 THEN "" ELSE "." \o ToString(a % scale))

\* A plausible slip: the guard for missing and non-positive values is left
\* out, so the template prints the number as JavaScript converts it.
formatWorkTime_unguarded(hours) ==
    IF IsNaN(hours) THEN "NaNh NaNm"
    ELSE IF ~IsFinite(hours) THEN "Infinityh NaNm"
    ELSE LET totalMinutes == RRound(RMul(hours, Num(60)))[1]
             h == IF totalMinutes >= 0 THEN totalMinutes \div 60
                  ELSE -(((-totalMinutes) + 59) \div 60)
             m == IF totalMinutes >= 0 THEN totalMinutes % 60
                  ELSE -((-totalMinutes) % 60)
         IN  IF h <= 0 THEN ToString(m) \o "m"
             ELSE IF m = 0 THEN ToString(h) \o "h"
             ELSE ToString(h) \o "h " \o ToString(m) \o "m"

formatWorkTime(hours) ==
    IF ~IsFinite(hours) \/ RLe(hours, Num(0)) THEN Dash
    ELSE LET totalMinutes == RRound(RMul(hours, Num(60)))[1]
             h == totalMinutes \div 60
             m == totalMinutes % 60
         IN  IF h <= 0 THEN ToString(m) \o "m"
             ELSE IF m = 0 THEN ToString(h) \o "h"
             ELSE ToString(h) \o "h " \o ToString(m) \o "m"

formatDays(days) ==
    IF ~IsFinite(days) \/ RLe(days, Num(0)) THEN Dash
    ELSE IF RLt(days, Num(1))
         THEN ToString(RMax(Num(1), RRound(RMul(days, Num(24))))[1]) \o "h"
    ELSE toFixed(days, IF RGe(days, Num(10)) THEN 0 ELSE 1) \o "d"

\* What ItemPageInner derives from its state on a render.
itemPage(st) ==
    LET currency == IF Len(st.settings) > 0 THEN st.settings[1].currency ELSE "CAD"
        expectedAnnualReturn ==
            IF Len(st.settings) > 0 THEN st.settings[1].expectedAnnualReturn ELSE Rat(8, 100)
        hourlyWage == IF Len(st.settings) > 0 THEN st.settings[1].hourlyWage ELSE Num(0)
        jobSatisfaction == IF Len(st.settings) > 0 THEN st.settings[1].jobSatisfaction ELSE Num(7)
        stressMultiplier ==
            RAdd(Num(1), RMul(RSub(Num(10), RMax(Num(1), RMin(Num(10), jobSatisfaction))),
                              Rat(1, 10)))
        price == effectivePrice(st)
    IN  [currency |-> currency, expectedAnnualReturn |-> expectedAnnualReturn,
         hourlyWage |-> hourlyWage, stressMultiplier |-> stressMultiplier,
         effectivePrice |-> price,
         workTimeHours |->
             IF price # Null /\ RGt(hourlyWage, Num(0))
             THEN RMul(RDiv(price, hourlyWage), stressMultiplier) ELSE NaN,
         freedomDays |->
             IF price # Null /\ RGt(hourlyWage, Num(0))
             THEN RDiv(price, RMul(hourlyWage, Num(8))) ELSE NaN,
         split |-> IF price = Null THEN Null
                   ELSE splitComparison(price, expectedAnnualReturn)]

\* The work time and the freedom gain as the item page prints them.
itemPageText(r) ==
    [workTime |-> formatWorkTime(r.workTimeHours), freedom |-> formatDays(r.freedomDays)]

\* The catalogue prices, the numbers the manual price field may read as,
\* and the settings getMyProfile may deliver.  The settings state is <<>>
\* while the profile is not loaded and <<settings>> afterwards.
ItemDefaultPrices == {Null, Num(500), Rat(199, 2)}

ItemManualPrices == {NaN, Num(0), Num(-5), Num(1200), Rat(1, 3)}

ItemSettings ==
    {[currency |-> "CAD", expectedAnnualReturn |-> r, hourlyWage |-> w,
      jobSatisfaction |-> j] :
        r \in {Num(0), Rat(8, 100), Num(1)}, w \in {Num(0), Num(30)},
        j \in {Num(1), Num(7), Num(10)}}

InitItem ==
    /\ StoreIdle
    /\ \E dp \in ItemDefaultPrices :
          call = [fn |-> "itemPage", defaultPrice |-> dp,
                  priceMode |-> IF dp = Null THEN "manual" ELSE "auto",
                  manualPrice |-> Num(0), settings |-> <<>>]
    /\ ret = itemPage(call)

SetPriceMode ==
    /\ call.fn = "itemPage"
    /\ \E m \in {"auto", "manual"} : call' = [call EXCEPT !.priceMode = m]
    /\ ret' = itemPage(call')
    /\ UNCHANGED storeVars

SetManualPrice ==
    /\ call.fn = "itemPage"
    /\ call.priceMode = "manual"
    /\ \E x \in ItemManualPrices : call' = [call EXCEPT !.manualPrice = x]
    /\ ret' = itemPage(call')
    /\ UNCHANGED storeVars

SetSettings ==
    /\ call.fn = "itemPage"
    /\ \E x \in ItemSettings : call' = [call EXCEPT !.settings = <<x>>]
    /\ ret' = itemPage(call')
    /\ UNCHANGED storeVars

NextItem == SetPriceMode \/ SetManualPrice \/ SetSettings

SpecItem == InitItem /\ [][NextItem]_vars

\* C11: whenever the item page has a price p > 0, with annual rate r, the
\* resale side is 0.65 p after year 1 and 0.65 * 0.85 p after year 2, the
\* investment side is p (1 + r) after year 1 and that again times (1 + r)
\* after year 2 (one compounding a year), and the opportunity cost shown is
\* the larger of investYear2 - resaleYear2 and 0; for p = 500, r = 0.08
\* these are 276.25, 583.20 and 306.95.
C11_SplitComparison ==
    (call.fn = "itemPage" /\ ret.effectivePrice # Null /\ RGt(ret.effectivePrice, Num(0))) =>
        LET p == ret.effectivePrice
            r == ret.expectedAnnualReturn
            x == ret.split
        IN  /\ x.resale.year1 = RMul(Rat(65, 100), p)
            /\ x.resale.year2 = RMul(RMul(Rat(65, 100), Rat(85, 100)), p)
            /\ x.invest.year1 = RAdd(p, RMul(p, r))
            /\ x.invest.year2 = RAdd(x.invest.year1, RMul(x.invest.year1, r))
            /\ x.opportunityCost =
                   (IF RGt(x.invest.year2, x.resale.year2)
                    THEN RSub(x.invest.year2, x.resale.year2) ELSE Num(0))
            /\ (p = Num(500) /\ r = Rat(8, 100)) =>
                   /\ x.resale.year2 = Rat(27625, 100)
                   /\ x.invest.year2 = Rat(58320, 100)
                   /\ x.opportunityCost = Rat(30695, 100)

\* C11 witness: the page shows the comparison for the catalogue price 500
\* with the profile loaded at an expected return of 0.08.
C11_Witness ==
    /\ call.fn = "itemPage"
    /\ Len(call.settings) > 0
    /\ ret.effectivePrice = Num(500)
    /\ ret.expectedAnnualReturn = Rat(8, 100)
    /\ ret.split.opportunityCost = Rat(30695, 100)

(***************************************************************************)
(* Subscription danger center: the per-subscription totals and the danger  *)
(* flag                                                                    *)
(***************************************************************************)
\* A plausible slip: the cadence is ignored, a yearly amount counts as a
\* monthly one.
monthlyCost_flat(amount, cadence) == amount

monthlyCost(amount, cadence) ==
    IF cadence = "yearly" THEN RDiv(amount, Num(12)) ELSE amount

\* usesById[s.id] ?? 0
usesOf(usesById, id) == IF id \in DOMAIN usesById THEN usesById[id] ELSE Num(0)

\* SubscriptionDangerCenter.totals for the component state st at the instant now.
dangerTotals(st, now) ==
    LET subs == st.data
        items == [k \in 1..Len(subs) |->
            LET s == subs[k]
                mCost == monthlyCost(s.amount, s.cadence)
                monthsSoFar == monthsBetween(s.createdAt, now)
                uses == usesOf(st.usesById, s.id)
            IN  [id |-> s.id, amount |-> s.amount, cadence |-> s.cadence,
                 createdAt |-> s.createdAt, mCost |-> mCost,
                 monthsSoFar |-> monthsSoFar,
                 spendSoFar |-> RMul(mCost, Num(monthsSoFar)), uses |-> uses,
                 costPerUse |-> IF RGt(uses, Num(0)) THEN RDiv(mCost, uses) ELSE Infinity,
                 unused |-> (uses = Num(0))]]
        monthlyTotal == Sum([k \in 1..Len(items) |-> items[k].mCost])
        lifetimeTotal == Sum([k \in 1..Len(items) |-> items[k].spendSoFar])
    IN  [items |-> items, monthlyTotal |-> monthlyTotal, lifetimeTotal |-> lifetimeTotal,
         savings |-> RMul(monthlyTotal, RDiv(clamp(st.cutPct, Num(0), Num(100)), Num(100)))]

\* The render of the list: each item of the totals with its danger flag.
dangerCenter(st, now) ==
    LET totals == dangerTotals(st, now)
    IN  [totals |-> totals,
         danger |-> [k \in 1..Len(totals.items) |->
                        totals.items[k].unused /\ RGe(totals.items[k].mCost, Num(8))]]

MaxSubs == 2

MaxUses == 3

\* Subscriptions getSubscriptionDangerData may deliver: monthly and yearly
\* charges on either side of the threshold.
DangerSubs ==
    {[id |-> <<"sub", 1>>, amount |-> Num(8), cadence |-> "monthly", createdAt |-> 24 * 396],
     [id |-> <<"sub", 2>>, amount |-> Rat(799, 100), cadence |-> "monthly", createdAt |-> 24 * 455],
     [id |-> <<"sub", 3>>, amount |-> Num(96), cadence |-> "yearly", createdAt |-> 24 * 396],
     [id |-> <<"sub", 4>>, amount |-> Num(95), cadence |-> "yearly", createdAt |-> 24 * 300]}

DangerLists ==
    {f \in UNION {[1..n -> DangerSubs] : n \in 0..MaxSubs} :
        \A i, j \in 1..Len(f) : i # j => f[i].id # f[j].id}

InitDanger ==
    /\ db = EmptyDb /\ cookie = NoCookie /\ env = UtcEnv /\ uuids = 0
    /\ result = NoResult
    /\ nowT = Now0
    /\ call = [fn |-> "dangerCenter", data |-> <<>>, usesById |-> <<>>, cutPct |-> Num(25)]
    /\ ret = dangerCenter(call, nowT)

\* refresh(): the subscriptions of a fresh getSubscriptionDangerData.
RefreshDanger ==
    /\ \E f \in DangerLists : call' = [call EXCEPT !.data = f]
    /\ ret' = dangerCenter(call', nowT)
    /\ UNCHANGED storeVars

\* The uses slider of a listed subscription.
SetUses ==
    /\ \E k \in 1..Len(call.data), n \in {0, MaxUses} :
          LET id == call.data[k].id
          IN  call' = [call EXCEPT !.usesById =
                          [x \in DOMAIN call.usesById \cup {id} |->
                              IF x = id THEN Num(n) ELSE call.usesById[x]]]
    /\ ret' = dangerCenter(call', nowT)
    /\ UNCHANGED storeVars

NextDanger == RefreshDanger \/ SetUses

SpecDanger == InitDanger /\ [][NextDanger]_vars

\* C12: a listed subscription is flagged as danger exactly when its monthly
\* uses (0 while none were entered) are 0 and its monthly-equivalent cost is
\* at least 8, that is amount >= 8 for a monthly and amount >= 96 for a
\* yearly charge; with uses > 0 it is never flagged.
C12_DangerFlag ==
    call.fn = "dangerCenter" =>
        \A k \in 1..Len(call.data) :
            LET s == call.data[k]
                zeroUses == s.id \notin DOMAIN call.usesById \/ call.usesById[s.id] = Num(0)
                costly == IF s.cadence = "yearly" THEN RGe(s.amount, Num(96))
                          ELSE RGe(s.amount, Num(8))
            IN  /\ ret.danger[k] <=> (zeroUses /\ costly)
                /\ (~zeroUses /\ RGt(call.usesById[s.id], Num(0))) => ~ret.danger[k]

\* C12 witness: a yearly charge of 96 with no uses is flagged next to a
\* monthly charge of 8 that is used and so is not.
C12_Witness ==
    /\ call.fn = "dangerCenter"
    /\ \E i, j \in 1..Len(call.data) :
          /\ call.data[i].cadence = "yearly" /\ call.data[i].amount = Num(96)
          /\ ret.danger[i]
          /\ call.data[j].amount = Num(8)
          /\ ret.totals.items[j].uses = Num(MaxUses)
          /\ ~ret.danger[j]

(***************************************************************************)
(* Work time and freedom impact: the ghost cart values and their rendering *)
(***************************************************************************)
\* The "Freedom impact" box of a ghost cart card on the user page.
freedomImpact(it) ==
    [retirement |-> IF IsFinite(it.retirementDays)
                    THEN toFixed(it.retirementDays, 1) \o " days" ELSE Dash,
     savedWork |-> formatWorkTime(it.workHoursSaved)]

\* A ghost cart card: the item getGhostCartData computes for a stored row
\* under the user's settings.
ghostCard(st) == ghostCartItem(st.row, st.settings)

CardSettings ==
    {[DEFAULT_SETTINGS EXCEPT !.hourlyWage = w, !.jobSatisfaction = j,
                              !.expectedAnnualReturn = r] :
        w \in {Num(0), Num(30), Rat(31, 2), Num(100)},
        j \in {Num(1), Num(7), Num(10)}, r \in {Num(0), Rat(6, 10)}}

CardRows ==
    {[id |-> <<"ghost", 1>>, title |-> <<"T", "v">>, category |-> "other", price |-> p,
      priceMode |-> "auto", imageUrl |-> <<>>, ghostedAt |-> g] :
        p \in {Num(1), Num(500), Rat(129999, 100)}, g \in {24 * 396, 24 * 455}}

InitCard ==
    /\ db = EmptyDb /\ cookie = NoCookie /\ env = UtcEnv /\ uuids = 0
    /\ result = NoResult
    /\ nowT = Now0
    /\ \E r \in {x \in CardRows : x.price = Num(500) /\ x.ghostedAt = 24 * 396} :
          call = [fn |-> "ghostCard", settings |-> DEFAULT_SETTINGS, row |-> r]
    /\ ret = ghostCard(call)

\* The user page loads the cart again after the settings were saved.
SetCardSettings ==
    /\ call.fn = "ghostCard"
    /\ \E s \in CardSettings : call' = [call EXCEPT !.settings = s]
    /\ ret' = ghostCard(call')
    /\ UNCHANGED storeVars

\* The user page shows another item of the cart.
SetCardRow ==
    /\ call.fn = "ghostCard"
    /\ \E r \in CardRows : call' = [call EXCEPT !.row = r]
    /\ ret' = ghostCard(call')
    /\ UNCHANGED storeVars

InitWork == InitCard \/ (InitItem /\ nowT = 0)

NextWork == SetCardSettings \/ SetCardRow \/ NextItem

SpecWork == InitWork /\ [][NextWork]_vars

\* The stress multiplier of a whole satisfaction value j between 1 and 10.
StressOf(j) == Rat(20 - j[1], 10)

computedIncome(st) ==
    LET wage == st.hourlyWage
        hours == IF st.payFrequency = "weekly" THEN 40
                 ELSE IF st.payFrequency = "biweekly" THEN 80 ELSE 160
    IN  IF ~IsFinite(wage) \/ RLe(wage, Num(0)) THEN Num(0)
        ELSE RMul(wage, Num(hours))

InitIncome ==
    /\ db = EmptyDb /\ cookie = NoCookie /\ env = UtcEnv /\ uuids = 0
    /\ result = NoResult
    /\ nowT = Now0
    /\ call = [fn |-> "userPage", hourlyWage |-> Num(0), payFrequency |-> "biweekly"]
    /\ ret = computedIncome(call)

SetHourlyWage ==
    /\ \E x \in {NaN, Num(0), Num(-3), Num(25), Rat(61, 2), Num(20000)} :
          call' = [call EXCEPT !.hourlyWage = x]
    /\ ret' = computedIncome(call')
    /\ UNCHANGED storeVars

SetPayFrequency ==
    /\ \E f \in {"weekly", "biweekly", "monthly"} :
          call' = [call EXCEPT !.payFrequency = f]
    /\ ret' = computedIncome(call')
    /\ UNCHANGED storeVars

\* onSaveSettings up to the return of updateMySettings.
SaveSettings ==
    UpdateMySettingsOf({[hourlyWage |-> clamp(call.hourlyWage, Num(0), Num(10000)),
                         payFrequency |-> call.payFrequency, currency |-> "CAD",
                         expectedAnnualReturn |-> Rat(8, 100),
                         jobSatisfaction |-> Num(7)]})

\* refreshProfile: getMyProfile, then the form takes the stored values.
RefreshProfile ==
    LET c == getCurrentUserId(db, cookie)
        g == getSettings(c.db, c.userId)
    IN  /\ result' = [op |-> "getMyProfile", isDemo |-> (c.userId = DEMO_USER_ID),
                      settings |-> g.settings]
        /\ db' = g.db
        /\ cookie' = c.cookie
        /\ call' = [call EXCEPT !.hourlyWage = g.settings.hourlyWage,
                                !.payFrequency = g.settings.payFrequency]
        /\ ret' = computedIncome(call')
        /\ UNCHANGED <<nowT, env, uuids>>

NextIncome == SetHourlyWage \/ SetPayFrequency \/ SaveSettings \/ RefreshProfile

SpecIncome == InitIncome /\ [][NextIncome]_vars

\* The hours of a pay period.
HoursOf(f) == CASE f = "weekly" -> 40 [] f = "biweekly" -> 80 [] f = "monthly" -> 160

\* C14: the income of a pay period is hourlyWage * 40 for weekly,
\* hourlyWage * 80 for biweekly and hourlyWage * 160 for monthly pay, hence
\* 0 for a wage of 0, on the server for every stored settings row and in
\* the estimate of the settings form; with the same positive wage and
\* frequency the two are equal.
C14_PeriodIncome ==
    call.fn = "userPage" =>
        /\ ret = IF IsFinite(call.hourlyWage) /\ RGt(call.hourlyWage, Num(0))
                 THEN RMul(Num(HoursOf(call.payFrequency)), call.hourlyWage) ELSE Num(0)
        /\ \A r \in db.userSettings :
              LET server == computeIncomeThisPeriod(getSettings(db, r.userId).settings)
              IN  /\ server = RMul(Num(HoursOf(r.payFrequency)), r.hourlyWage)
                  /\ r.hourlyWage = Num(0) => server = Num(0)
                  /\ (/\ RGt(r.hourlyWage, Num(0))
                      /\ call.hourlyWage = r.hourlyWage
                      /\ call.payFrequency = r.payFrequency) => ret = server

\* C14 witness: a wage of 30.50 paid monthly was saved and loaded again;
\* the form and the server both arrive at 4880.
C14_Witness ==
    /\ call.fn = "userPage"
    /\ call.hourlyWage = Rat(61, 2) /\ call.payFrequency = "monthly"
    /\ ret = Num(4880)
    /\ result.op = "getMyProfile"
    /\ \E r \in db.userSettings :
          /\ r.hourlyWage = Rat(61, 2) /\ r.payFrequency = "monthly"
          /\ computeIncomeThisPeriod(getSettings(db, r.userId).settings) = Num(4880)

(***************************************************************************)
(* Insights page: the week-over-week velocity and its pill                 *)
(***************************************************************************)
\* velocityPct of InsightsPage.computed for the data of getInsightsData.
velocityPct(data) ==
    LET last7Totals == [i \in 1..Len(data.dailyTotalsLast7) |-> data.dailyTotalsLast7[i].total]
        prev7Totals == [i \in 1..Len(data.dailyTotalsPrev7) |-> data.dailyTotalsPrev7[i].total]
        avgDaily7 == IF Len(last7Totals) > 0
                     THEN RDiv(Sum(last7Totals), Num(Len(last7Totals))) ELSE Num(0)
        avgDailyPrev7 == IF Len(prev7Totals) > 0
                         THEN RDiv(Sum(prev7Totals), Num(Len(prev7Totals))) ELSE Num(0)
    IN  IF RGt(avgDailyPrev7, Num(0))
        THEN RMul(RDiv(RSub(avgDaily7, avgDailyPrev7), avgDailyPrev7), Num(100))
        ELSE IF RGt(avgDaily7, Num(0)) THEN Infinity
        ELSE Num(0)

\* The label of VelocityPill; the arrows up, down and right of the source
\* are written "^", "v" and ">".
VelocityPill(pct) ==
    IF ~IsFinite(pct) THEN "^ new"
    ELSE LET up == RGt(pct, Rat(1, 2))
             down == RLt(pct, Rat(-1, 2))
         IN  (IF up THEN "^" ELSE IF down THEN "v" ELSE ">") \o " "
                 \o toFixed(IF RLt(pct, Num(0)) THEN RNeg(pct) ELSE pct, 0)
                 \o "% vs last week"

\* Expenses of this week and of the week before; addExpense stores the
\* amount it is called with, whatever number it is.
VelocityInputs ==
    {[amount |-> a, category |-> "food", date |-> isoDate(nowT) - back] :
        a \in {Num(10), Num(30), Infinity}, back \in {0, 7}}

InitVelocity ==
    /\ db = EmptyDb /\ cookie = NoCookie /\ env = UtcEnv /\ uuids = 0
    /\ result = NoResult
    /\ nowT = Now0
    /\ call = NoCall
    /\ ret = Num(0)

AddWeekExpense == AddExpenseOf(VelocityInputs)

NextVelocity == AddWeekExpense \/ GetInsightsData

SpecVelocity == InitVelocity /\ [][NextVelocity]_vars

\* The average of the totals of a window of seven days.
WindowAvg(w) == RDiv(Sum([i \in 1..Len(w) |-> w[i].total]), Num(7))

\* C15: for everything getInsightsData can return, the velocity the page
\* derives is ((current - previous) / previous) * 100 when the previous
\* window's average is positive, the infinite sentinel when previous is 0
\* and current is positive, 0 when both are 0; it is never NaN, and the
\* pill reads "new" for the infinite sentinel and for nothing else.
C15_Velocity ==
    \A r \in insightsResults(db, cookie) :
        LET current == WindowAvg(r.dailyTotalsLast7)
            previous == WindowAvg(r.dailyTotalsPrev7)
            v == velocityPct(r)
        IN  /\ RGt(previous, Num(0)) =>
                  v = RDiv(RMul(RSub(current, previous), Num(100)), previous)
            /\ (previous = Num(0) /\ RGt(current, Num(0))) => v = Infinity
            /\ (previous = Num(0) /\ current = Num(0)) => v = Num(0)
            /\ ~IsNaN(v)
            /\ (VelocityPill(v) = "^ new") <=> (v = Infinity)

(***************************************************************************)
(* Insights: the weekday and weekend averages of the 30-day window         *)
(***************************************************************************)
\* The day of the week of a calendar day, 0 = Sunday; day 0 is Monday
\* 2024-01-01.
DayOfWeek(d) == (d + 1) % 7

\* C16: for everything getInsightsData can return, the thirty passes of the
\* weekend/weekday loop count each of the thirty days ending today once,
\* Saturdays and Sundays as weekend and the other days as weekdays, so the
\* two day counts add up to 30, and each average is the total of the user's
\* expenses dated on the days of its partition divided by the number of
\* those days, 0 and not NaN for a partition without days or expenses.
C16_WeekPartition ==
    \A r \in insightsResults(db, cookie) :
        LET today == isoDate(nowT)
            window == (today - 29)..today
            weekend == {d \in window : DayOfWeek(d) \in {0, 6}}
            weekday == window \ weekend
            wk == weekLoop(nowT, 29, <<>>,
                           [weekendTotal |-> Num(0), weekendDays |-> 0,
                            weekdayTotal |-> Num(0), weekdayDays |-> 0])
            avg(S) == IF S = {} THEN Num(0)
                      ELSE RDiv(AmountOfRows({e \in db.expenses :
                                                 e.userId = r.userId /\ e.date \in S}),
                                Num(Cardinality(S)))
        IN  /\ wk.weekdayDays + wk.weekendDays = 30
            /\ wk.weekendDays = Cardinality(weekend)
            /\ wk.weekdayDays = Cardinality(weekday)
            /\ r.weekendAvg = avg(weekend)
            /\ r.weekdayAvg = avg(weekday)
            /\ ~IsNaN(r.weekendAvg) /\ ~IsNaN(r.weekdayAvg)

(***************************************************************************)
(* Dashboard: the category totals                                          *)
(***************************************************************************)
\* The six expense categories in their fixed order.
SixCategories == <<"food", "rent", "transport", "subscriptions", "shopping", "other">>

\* C17: the categoryTotals of a getDashboardSummary result hold one entry
\* for each of the six categories, in the fixed order, each with the sum of
\* the amounts of the summarised expenses of that category, 0 when there is
\* none.
C17_CategoryTotals ==
    result.op = "getDashboardSummary" =>
        LET t == result.categoryTotals
            rows == result.recentExpenses
        IN  /\ Len(t) = 6
            /\ \A k \in 1..6 :
                  /\ t[k].key = SixCategories[k]
                  /\ t[k].total =
                         Sum(Amounts(SelectSeq(rows, LAMBDA e : e.category = SixCategories[k])))

(***************************************************************************)
(* The derived metrics as functions of the stored rows                     *)
(***************************************************************************)
\* The daily totals and the weekday/weekend averages of everything
\* getInsightsData can return in the current state.
InsightsMetrics ==
    {[dailyTotalsLast7 |-> r.dailyTotalsLast7, dailyTotalsPrev7 |-> r.dailyTotalsPrev7,
      weekendAvg |-> r.weekendAvg, weekdayAvg |-> r.weekdayAvg] :
        r \in insightsResults(db, cookie)}

\* The valuations of everything getGhostCartData can return in the current
\* state.
GhostValuations ==
    {[i \in 1..Len(r.items) |->
         [id |-> r.items[i].id, investedValue |-> r.items[i].investedValue,
          growth |-> r.items[i].growth]] : r \in ghostCartResults(db, cookie)}

\* A ledger and a cart that are read, left alone while time passes, and
\* read again.
NextReplay ==
    \/ AddDatedGhostCartItem
    \/ TickFortnight
    \/ GetGhostCartData
    \/ GetInsightsData

SpecReplay == InitGhost /\ [][NextReplay]_vars

\* The last result was computed from the rows and settings now stored.
OverCurrentStore ==
    /\ result.userId = getCurrentUserId(db, cookie).userId
    /\ result.op = "getGhostCartData" =>
          /\ \A st \in {x \in db.userSettings : x.userId = result.userId} :
                result.expectedAnnualReturn = st.expectedAnnualReturn
          /\ {[id |-> result.items[i].id, price |-> result.items[i].price,
               ghostedAt |-> result.items[i].ghostedAt] : i \in 1..Len(result.items)}
                 = {[id |-> x.id, price |-> x.price, ghostedAt |-> x.ghostedAt] :
                       x \in {y \in db.ghostCartItems : y.userId = result.userId}}
    /\ result.op = "getInsightsData" =>
          ~\E e \in db.expenses : e.userId = result.userId

\* C18: the metrics are determined by the stored rows and settings: a
\* result computed from the rows and settings now stored is what the same
\* evaluation yields now, whatever time has passed since, in its daily
\* totals and averages (getInsightsData) and in its valuations
\* (getGhostCartData).
C18_MetricsDeterministic ==
    (result.op \in {"getGhostCartData", "getInsightsData"} /\ OverCurrentStore) =>
        /\ result.op = "getInsightsData" =>
              [dailyTotalsLast7 |-> result.dailyTotalsLast7,
               dailyTotalsPrev7 |-> result.dailyTotalsPrev7,
               weekendAvg |-> result.weekendAvg, weekdayAvg |-> result.weekdayAvg]
                  \in InsightsMetrics
        /\ result.op = "getGhostCartData" =>
              [i \in 1..Len(result.items) |->
                  [id |-> result.items[i].id,
                   investedValue |-> result.items[i].investedValue,
                   growth |-> result.items[i].growth]] \in GhostValuations

(***************************************************************************)
(* Ghost cart: what addGhostCartItem accepts                               *)
(***************************************************************************)
\* Titles with text and of white space only; prices that are not numbers,
\* infinite, negative, zero, in range and above the cap.
CartInputs ==
    {[title |-> t, price |-> p, category |-> <<>>, imageUrl |-> <<>>, priceMode |-> "auto"] :
        t \in {Tv, <<" ">>},
        p \in {NaN, Infinity, Num(-5), Num(0), Num(500), Num(2000000)}}

\* A call of addGhostCartItem, the input kept in call.
AddCartItem ==
    \E input \in CartInputs :
        /\ addGhostCartItem(input)
        /\ call' = [fn |-> "addGhostCartItem", input |-> input]
        /\ UNCHANGED ret

NextCart == AddCartItem

SpecCart == InitStore /\ [][NextCart]_vars

\* A title without a character other than white space.
IsBlank(t) == \A i \in 1..Len(t) : IsSpace(t[i])

\* C19: every stored ghost cart item has a non-blank title and a price
\* above 0 and at most 1000000, and a call of addGhostCartItem with a blank
\* title, or with a price that is not finite or is <= 0, returns ok: false
\* and adds no row.
C19_GhostCartValidation ==
    [][(call'.fn = "addGhostCartItem" /\ result'.op = "addGhostCartItem") =>
          /\ \A x \in db'.ghostCartItems :
                /\ ~IsBlank(x.title)
                /\ IsFinite(x.price) /\ RGt(x.price, Num(0)) /\ RLe(x.price, Num(1000000))
          /\ (IsBlank(call'.input.title) \/ ~IsFinite(call'.input.price)
                  \/ RLe(call'.input.price, Num(0))) =>
                /\ result'.ok = FALSE
                /\ db'.ghostCartItems = db.ghostCartItems]_vars

(***************************************************************************)
(* Sessions: signing up, in and out, and the acting user                   *)
(***************************************************************************)
verifyPassword(password, stored) ==
    /\ Len(stored) = 3
    /\ stored[1] = "scrypt"
    /\ stored[3] = <<"key", password, stored[2]>>

signIn(input) ==
    LET email == normalizeEmail(input.email)
        rows == {u \in db.users : u.email = email}
        fail == /\ result' = [op |-> "signIn", ok |-> FALSE,
                              error |-> "Invalid email or password."]
                /\ UNCHANGED <<db, cookie, uuids>>
    IN  /\ IF rows = {} THEN fail
           ELSE \E u \in rows :
                  IF u.passwordHash = Null \/ ~verifyPassword(input.password, u.passwordHash)
                  THEN fail
                  ELSE /\ uuids + 1 <= MaxUuids
                       /\ db' = [db EXCEPT !.sessions = @ \cup
                                    {[id |-> <<"sess", uuids + 1>>, userId |-> u.id,
                                      createdAt |-> nowT,
                                      expiresAt |-> nowT + SESSION_TTL_DAYS * 24]}]
                       /\ cookie' = <<"sess", uuids + 1>>
                       /\ uuids' = uuids + 1
                       /\ result' = [op |-> "signIn", ok |-> TRUE]
        /\ UNCHANGED <<nowT, env, call, ret>>

\* The account of Bob, created earlier and signed out.
BobEmail == <<"b", "@", "x", ".", "i", "o">>

BobPassword == <<"h", "u", "n", "t", "e", "r", "4", "2">>

InitSession ==
    /\ nowT = Now0
    /\ db = [EmptyDb EXCEPT
                !.users = {[id |-> <<"usr", 0>>, name |-> <<"B", "o", "b">>,
                            email |-> BobEmail,
                            passwordHash |-> hashPassword(BobPassword, 0),
                            createdAt |-> Now0 - 24]},
                !.userSettings = {SettingsRow(<<"usr", 0>>, DEFAULT_SETTINGS)}]
    /\ cookie = NoCookie
    /\ env = UtcEnv
    /\ uuids = 0
    /\ result = NoResult
    /\ call = NoCall
    /\ ret = Num(0)

SignIn ==
    \E input \in {[email |-> <<" ", "B", "@", "x", ".", "i", "o">>, password |-> BobPassword],
                   [email |-> BobEmail, password |-> <<"g", "u", "e", "s", "s">>],
                   [email |-> <<"a", "@", "x", ".", "i", "o">>,
                    password |-> <<"p", "a", "s", "s", "w", "o", "r", "d">>]} :
        signIn(input)

\* Time passes in steps of half the life of a session.
TickSession == TickOf({12 * SESSION_TTL_DAYS}, Now0 + 36 * SESSION_TTL_DAYS)

NextSession ==
    \/ SignUp
    \/ SignIn
    \/ SignOut
    \/ TickSession
    \/ PresentCookie
    \/ GetMyProfile

SpecSession == InitSession /\ [][NextSession]_vars

\* The stored sessions the cookie names that have not expired.
LiveSessions(ck) == {x \in db.sessions : x.id = ck /\ x.expiresAt > nowT}

\* The acting user of every cookie a request can carry is the demo user
\* exactly when no session that has not expired goes with it.
ActsAsSessionUser ==
    \A ck \in {cookie} \cup {x.id : x \in db.sessions} :
        /\ (getCurrentUserId(db, ck).userId = DEMO_USER_ID)
               <=> (ck = NoCookie \/ LiveSessions(ck) = {})
        /\ \A x \in LiveSessions(ck) : getCurrentUserId(db, ck).userId = x.userId

\* A session keeps its user, and a successful signUp or signIn leaves the
\* browser with the cookie of a new session of an account.
IssuesSession ==
    /\ \A x \in db.sessions : \A y \in db'.sessions : y.id = x.id => y.userId = x.userId
    /\ (uuids' # uuids /\ result'.op \in {"signUp", "signIn"}) =>
          /\ result'.ok
          /\ ~\E x \in db.sessions : x.id = cookie'
          /\ \E x \in db'.sessions :
                /\ x.id = cookie'
                /\ x.expiresAt = nowT + SESSION_TTL_DAYS * 24
                /\ x.userId # DEMO_USER_ID
                /\ \E u \in db'.users : u.id = x.userId

\* C20: a request acts as the demo user exactly when it carries no
\* cookie, its cookie names no stored session or the session it names has
\* expiresAt <= now, and as the session's user otherwise; a successful
\* signUp or signIn leaves the browser with the cookie of a new session of
\* an account, a session never changes its user, and so a request with
\* that cookie acts as that account and no other until the session is
\* removed (signOut) or expires.
C20_ActingUser == []ActsAsSessionUser /\ [][IssuesSession]_vars

\* C20 witness: two accounts hold sessions that have not expired, the
\* request carries the cookie of one of them and acts as its account.
C20_Witness ==
    \E x, y \in db.sessions :
        /\ x.userId # y.userId
        /\ x.expiresAt > nowT /\ y.expiresAt > nowT
        /\ cookie = x.id
        /\ getCurrentUserId(db, cookie).userId = x.userId
        /\ result.op = "getMyProfile" /\ result.user.id = x.userId

(***************************************************************************)
(* The stress multiplier at its three call sites                           *)
(***************************************************************************)
\* The user page: its jobSatisfaction state after refreshProfile and the
\* multiplier it shows for it.
stressMultiplier(jobSatisfaction) ==
    LET s == clamp(jobSatisfaction, Num(1), Num(10))
    IN  RAdd(Num(1), RMul(RSub(Num(10), s), Rat(1, 10)))

userPageStress(profile) ==
    stressMultiplier(clamp(profile.settings.jobSatisfaction, Num(1), Num(10)))

\* The item page once getMyProfile has delivered the settings.
itemPageStress(profile) ==
    itemPage([defaultPrice |-> Null, priceMode |-> "manual", manualPrice |-> Num(0),
              settings |-> <<[currency |-> profile.settings.currency,
                              expectedAnnualReturn |-> profile.settings.expectedAnnualReturn,
                              hourlyWage |-> profile.settings.hourlyWage,
                              jobSatisfaction |-> profile.settings.jobSatisfaction]>>]).stressMultiplier

NextStress ==
    \/ UpdateMySettings
    \/ GetMyProfile
    \/ GetInsightsData
    \/ GetGhostCartData

SpecStress == InitStore /\ [][NextStress]_vars

\* C21: for every jobSatisfaction getSettings returns, the multiplier of
\* the server's computeStressMultiplier, the one the item page computes and
\* the one the settings page computes are the same number,
\* 1 + (10 - clamp(jobSatisfaction, 1, 10)) * 0.1.
C21_StressAgreement ==
    \A r \in db.userSettings :
        LET st == getSettings(db, r.userId).settings
            profile == [settings |-> st]
            expected == RAdd(Num(1), RMul(RSub(Num(10), RMax(Num(1), RMin(Num(10), st.jobSatisfaction))),
                                          Rat(1, 10)))
        IN  /\ computeStressMultiplier(st.jobSatisfaction) = expected
            /\ itemPageStress(profile) = expected
            /\ userPageStress(profile) = expected

(***************************************************************************)
(* Rows and their owners: the delete handlers and addSubscription          *)
(***************************************************************************)
\* A plausible slip: the row is removed whoever owns it.
deleteExpense_anyOwner(expenseId) ==
    LET c == getCurrentUserId(db, cookie)
    IN  /\ db' = [c.db EXCEPT !.expenses = {x \in @ : x.id # expenseId}]
        /\ cookie' = c.cookie
        /\ call' = [fn |-> "deleteExpense", id |-> expenseId, userId |-> c.userId]
        /\ UNCHANGED <<nowT, env, uuids, result, ret>>

\* The call is recorded with the user it resolved to; the empty id is <<>>.
deleteExpense(expenseId) ==
    IF expenseId = <<>>
    THEN /\ call' = [fn |-> "deleteExpense", id |-> expenseId, userId |-> Null]
         /\ UNCHANGED <<db, cookie, nowT, env, uuids, result, ret>>
    ELSE LET c == getCurrentUserId(db, cookie)
         IN  /\ db' = [c.db EXCEPT !.expenses =
                          {x \in @ : ~(x.id = expenseId /\ x.userId = c.userId)}]
             /\ cookie' = c.cookie
             /\ call' = [fn |-> "deleteExpense", id |-> expenseId, userId |-> c.userId]
             /\ UNCHANGED <<nowT, env, uuids, result, ret>>

deleteSubscription(subscriptionId) ==
    IF subscriptionId = <<>>
    THEN /\ call' = [fn |-> "deleteSubscription", id |-> subscriptionId, userId |-> Null]
         /\ UNCHANGED <<db, cookie, nowT, env, uuids, result, ret>>
    ELSE LET c == getCurrentUserId(db, cookie)
         IN  /\ db' = [c.db EXCEPT !.subscriptions =
                          {x \in @ : ~(x.id = subscriptionId /\ x.userId = c.userId)}]
             /\ cookie' = c.cookie
             /\ call' = [fn |-> "deleteSubscription", id |-> subscriptionId,
                         userId |-> c.userId]
             /\ UNCHANGED <<nowT, env, uuids, result, ret>>

deleteGhostCartItem(itemId) ==
    IF itemId = <<>>
    THEN /\ call' = [fn |-> "deleteGhostCartItem", id |-> itemId, userId |-> Null]
         /\ UNCHANGED <<db, cookie, nowT, env, uuids, result, ret>>
    ELSE LET c == getCurrentUserId(db, cookie)
         IN  /\ db' = [c.db EXCEPT !.ghostCartItems =
                          {x \in @ : ~(x.id = itemId /\ x.userId = c.userId)}]
             /\ cookie' = c.cookie
             /\ call' = [fn |-> "deleteGhostCartItem", id |-> itemId, userId |-> c.userId]
             /\ UNCHANGED <<nowT, env, uuids, result, ret>>

addSubscription(input) ==
    LET c == getCurrentUserId(db, cookie)
    IN  /\ uuids + 1 <= MaxUuids
        /\ db' = [c.db EXCEPT !.subscriptions = @ \cup
                     {[id |-> <<"sub", uuids + 1>>, userId |-> c.userId,
                       name |-> input.name, amount |-> input.amount,
                       cadence |-> input.cadence,
                       nextBillingDate |-> IF Has(input, "nextBillingDate")
                                           THEN input.nextBillingDate ELSE Null,
                       createdAt |-> nowT]}]
        /\ cookie' = c.cookie
        /\ uuids' = uuids + 1
        /\ call' = [fn |-> "addSubscription", input |-> input, userId |-> c.userId]
        /\ result' = [op |-> "addSubscription"]
        /\ UNCHANGED <<nowT, env, ret>>

Gym == <<"G", "y", "m">>

\* Bob signed up a day ago, is signed in and owns one row of every kind.
BobId == <<"usr", 0>>

BobSession == <<"sess", -1>>

InitIsolation ==
    /\ nowT = Now0
    /\ db = [EmptyDb EXCEPT
                !.users = {[id |-> BobId, name |-> <<"B", "o", "b">>, email |-> BobEmail,
                            passwordHash |-> hashPassword(BobPassword, 0),
                            createdAt |-> Now0 - 24]},
                !.userSettings = {SettingsRow(BobId, DEFAULT_SETTINGS)},
                !.sessions = {[id |-> BobSession, userId |-> BobId, createdAt |-> Now0 - 24,
                               expiresAt |-> Now0 - 24 + SESSION_TTL_DAYS * 24]},
                !.expenses = {[id |-> <<"exp", 0>>, userId |-> BobId, amount |-> Num(12),
                               category |-> "food", date |-> isoDate(Now0 - 24),
                               note |-> Null, createdAt |-> Now0 - 24]},
                !.subscriptions = {[id |-> <<"sub", 0>>, userId |-> BobId, name |-> Gym,
                                    amount |-> Num(40), cadence |-> "monthly",
                                    nextBillingDate |-> Null, createdAt |-> Now0 - 24]},
                !.ghostCartItems = {[id |-> <<"ghost", 0>>, userId |-> BobId, title |-> Tv,
                                     category |-> Other, price |-> Num(500),
                                     priceMode |-> "auto", imageUrl |-> Placeholder,
                                     ghostedAt |-> Now0 - 24]}]
    /\ cookie = NoCookie
    /\ env = UtcEnv
    /\ uuids = 0
    /\ result = NoResult
    /\ call = NoCall
    /\ ret = Num(0)

DeleteExpense == \E id \in {x.id : x \in db.expenses} \cup {<<>>} : deleteExpense(id)

DeleteSubscription ==
    \E id \in {x.id : x \in db.subscriptions} \cup {<<>>} : deleteSubscription(id)

DeleteGhostCartItem ==
    \E id \in {x.id : x \in db.ghostCartItems} \cup {<<>>} : deleteGhostCartItem(id)

\* The most handler calls that add rows in one run of this specification.
MaxAdds == 1

\* A payment for the gym, a subscription Bob has under the same name.
AddGymExpense ==
    /\ uuids < MaxAdds
    /\ AddExpenseOf({[amount |-> Num(45), category |-> "subscriptions",
                      date |-> isoDate(nowT), note |-> Gym]})

AddGhostItem == uuids < MaxAdds /\ AddGhostCartItem

RaiseMyWage == UpdateMySettingsOf({[hourlyWage |-> Num(50), currency |-> "USD"]})

NextIsolation ==
    \/ PresentCookie
    \/ AddGymExpense
    \/ AddGhostItem
    \/ RaiseMyWage
    \/ DeleteExpense
    \/ DeleteSubscription
    \/ DeleteGhostCartItem

SpecIsolation == InitIsolation /\ [][NextIsolation]_vars

\* The settings a user has in store d: the stored row, or the defaults
\* getSettings falls back on while there is none.
StoredSettings(d, u) ==
    IF \E r \in d.userSettings : r.userId = u
    THEN {[hourlyWage |-> r.hourlyWage, payFrequency |-> r.payFrequency,
           currency |-> r.currency, expectedAnnualReturn |-> r.expectedAnnualReturn,
           jobSatisfaction |-> r.jobSatisfaction] : r \in {x \in d.userSettings : x.userId = u}}
    ELSE {DEFAULT_SETTINGS}

\* One step of the store seen from every user but the caller.
OthersUntouched ==
    LET caller == getCurrentUserId(db, cookie).userId
    IN  /\ \A u \in ({x.id : x \in db.users} \cup {DEMO_USER_ID}) \ {caller} :
              /\ {x \in db'.expenses : x.userId = u} = {x \in db.expenses : x.userId = u}
              /\ {x \in db'.subscriptions : x.userId = u}
                     = {x \in db.subscriptions : x.userId = u}
              /\ {x \in db'.ghostCartItems : x.userId = u}
                     = {x \in db.ghostCartItems : x.userId = u}
              /\ StoredSettings(db', u) = StoredSettings(db, u)
        /\ \A x \in (db.expenses \ db'.expenses) \cup (db.subscriptions \ db'.subscriptions)
                    \cup (db.ghostCartItems \ db'.ghostCartItems) : x.userId = caller

\* C22: a step of any handler removes only rows of the caller's resolved
\* user and leaves the expenses, subscriptions, ghost-cart items and
\* settings of every other user as they were, also when the caller passes
\* the id of another user's row to a delete handler.
C22_UserIsolation == [][OthersUntouched]_vars

\* C22 witness: the demo user has called a delete handler with the id of
\* one of Bob's rows, has a subscription of the same name, and Bob still
\* has his rows.
C22_Witness ==
    /\ call.fn \in {"deleteExpense", "deleteSubscription", "deleteGhostCartItem"}
    /\ call.id \in {<<"exp", 0>>, <<"sub", 0>>, <<"ghost", 0>>}
    /\ call.userId # BobId
    /\ \E x \in db.expenses : x.id = <<"exp", 0>> /\ x.userId = BobId
    /\ \E x \in db.subscriptions : x.id = <<"sub", 0>> /\ x.userId = BobId
    /\ \E x \in db.ghostCartItems : x.id = <<"ghost", 0>> /\ x.userId = BobId
    /\ \E x \in db.subscriptions : x.userId = call.userId /\ x.name = Gym

(***************************************************************************)
(* Sessions that have ended                                                *)
(***************************************************************************)
\* The session ids issued so far.
IssuedSessions == {<<"sess", k>> : k \in 1..uuids} \ {<<"sess", u.id[2]>> : u \in db.users}

\* Session id s names a stored session of store d not expired at instant t.
Honoured(d, t, s) == \E x \in d.sessions : x.id = s /\ x.expiresAt > t

\* One step of the store seen from the sessions: a step that clears the
\* cookie of a request also removes the session row it named; a lookup
\* that finds the session of the cookie expired removes the row and clears
\* the cookie; and a session id that is not honoured is not honoured after
\* the step either.
EndedStaysEnded ==
    /\ (cookie # NoCookie /\ cookie' = NoCookie) => ~\E x \in db'.sessions : x.id = cookie
    /\ (/\ result'.op = "getMyProfile" /\ nowT' = nowT /\ cookie' \in {cookie, NoCookie}
        /\ \E x \in db.sessions : x.id = cookie /\ x.expiresAt <= nowT)
          => (cookie' = NoCookie /\ ~\E x \in db'.sessions : x.id = cookie)
    /\ \A s \in IssuedSessions : ~Honoured(db, nowT, s) => ~Honoured(db', nowT', s)

\* C23: signOut deletes the session row the cookie names and clears the
\* cookie, a lookup that finds the session expired does the same, and a
\* session id that has once stopped resolving to its account resolves to
\* the demo user in every later state.
C23_InvalidationPermanent ==
    [](\A s \in IssuedSessions \cup {cookie} :
          ~Honoured(db, nowT, s) => getCurrentUserId(db, s).userId = DEMO_USER_ID)
        /\ [][EndedStaysEnded]_vars

\* C23 witness: Bob signed in, signed out and signed in again; the first
\* session id is gone for good while the second one acts as Bob.
C23_Witness ==
    /\ <<"sess", 1>> \in IssuedSessions
    /\ ~Honoured(db, nowT, <<"sess", 1>>)
    /\ cookie = <<"sess", 2>>
    /\ Honoured(db, nowT, cookie)
    /\ result.op = "getMyProfile" /\ result.user.id = <<"usr", 0>>

(***************************************************************************)
(* signUp as the requests of several browsers run it: the checks and the   *)
(* existence query first, the inserts after the next await                 *)
(***************************************************************************)
Requests == {1, 2}

UniqueViolation == "UNIQUE constraint failed: users.email"

\* signUp up to the existence query: request r returns a refusal or goes
\* on with the trimmed name, the normalized email and the password.
signUpQuery(r, input) ==
    LET name  == Trim(input.name)
        email == normalizeEmail(input.email)
        password == input.password
        fail(msg) ==
            /\ ret' = [ret EXCEPT ![r] = [op |-> "signUp", ok |-> FALSE, error |-> msg]]
            /\ UNCHANGED call
    IN  /\ call.pending[r] = <<>>
        /\ IF name = <<>> THEN fail("Name is required.")
           ELSE IF ~Includes(email, <<"@">>) THEN fail("Invalid email.")
           ELSE IF Len(password) < 8
                THEN fail("Password must be at least 8 characters.")
           ELSE IF \E u \in db.users : u.email = email
                THEN fail("Email already in use. Try signing in.")
           ELSE /\ call' = [call EXCEPT !.pending[r] =
                               <<[name |-> name, email |-> email, password |-> password]>>]
                /\ ret' = [ret EXCEPT ![r] = NoResult]
        /\ UNCHANGED <<db, cookie, nowT, env, uuids, result>>

\* signUp from the insert into users on.  The unique index on users.email
\* makes the insert fail when the email has been taken in the meantime:
\* the statement throws and the handler ends there.
signUpInsert(r) ==
    /\ call.pending[r] # <<>>
    /\ LET in == call.pending[r][1]
       IN  IF \E u \in db.users : u.email = in.email
           THEN /\ ret' = [ret EXCEPT ![r] = [op |-> "signUp", threw |-> UniqueViolation]]
                /\ UNCHANGED <<db, cookie, uuids>>
           ELSE /\ uuids + 2 <= MaxUuids
                /\ db' = [db EXCEPT
                            !.users = @ \cup
                                {[id |-> <<"usr", uuids + 1>>, name |-> in.name,
                                  email |-> in.email,
                                  passwordHash |-> hashPassword(in.password, uuids + 1),
                                  createdAt |-> nowT]},
                            !.userSettings = @ \cup
                                {SettingsRow(<<"usr", uuids + 1>>, DEFAULT_SETTINGS)},
                            !.sessions = @ \cup
                                {[id |-> <<"sess", uuids + 2>>, userId |-> <<"usr", uuids + 1>>,
                                  createdAt |-> nowT,
                                  expiresAt |-> nowT + SESSION_TTL_DAYS * 24]}]
                /\ cookie' = <<"sess", uuids + 2>>
                /\ uuids' = uuids + 2
                /\ ret' = [ret EXCEPT ![r] = [op |-> "signUp", ok |-> TRUE]]
    /\ call' = [call EXCEPT !.pending[r] = <<>>]
    /\ UNCHANGED <<nowT, env, result>>

InitSignUp ==
    /\ nowT = Now0
    /\ db = [EmptyDb EXCEPT
                !.users = {[id |-> BobId, name |-> <<"B", "o", "b">>, email |-> BobEmail,
                            passwordHash |-> hashPassword(BobPassword, 0),
                            createdAt |-> Now0 - 24]},
                !.userSettings = {SettingsRow(BobId, DEFAULT_SETTINGS)}]
    /\ cookie = NoCookie
    /\ env = UtcEnv
    /\ uuids = 0
    /\ result = NoResult
    /\ call = [fn |-> "signUp", pending |-> [r \in Requests |-> <<>>]]
    /\ ret = [r \in Requests |-> NoResult]

SignUpQuery ==
    \E r \in Requests :
        \E nm \in {<<" ", "A", "n", "n">>, <<" ">>},
           em \in {<<"A", "@", "x", ".", "i", "o", " ">>, <<"a", "@", "x", ".", "i", "o">>,
                   <<" ", "B", "@", "x", ".", "i", "o">>, <<"c", "@", "y", ".", "i", "o">>} :
            \E pw \in {<<"p", "a", "s", "s", "w", "o", "r", "d">>, <<"p", "w">>} :
                signUpQuery(r, [name |-> nm, email |-> em, password |-> pw])

SignUpInsert == \E r \in Requests : signUpInsert(r)

NextSignUp == SignUpQuery \/ SignUpInsert

SpecSignUp == InitSignUp /\ [][NextSignUp]_vars

\* A signUp step that finds its email in use adds no row and returns a
\* refusal.
RefusesTakenEmail ==
    \A r \in Requests :
        (/\ ret'[r] # ret[r]
         /\ ret'[r] # NoResult
         /\ ret'[r] # [op |-> "signUp", ok |-> TRUE])
            => /\ db' = db
               /\ "ok" \in DOMAIN ret'[r]
               /\ ret'[r].ok = FALSE

\* C24: no two user rows ever hold the same normalized email, and a signUp
\* that finds its email in use, at the existence query or at the insert
\* that follows it, adds no user, settings or session row and returns
\* {ok: false}.
C24_UniqueEmail ==
    [](\A u, v \in db.users :
          (u.email # Null /\ normalizeEmail(u.email) = normalizeEmail(v.email)) => u = v)
        /\ [][RefusesTakenEmail]_vars

(***************************************************************************)
(* addExpense as several requests run it: the expense row and the query    *)
(* for the subscription first, the update or insert after the next await   *)
(***************************************************************************)
\* The most addExpense calls one run of this specification starts.
MaxCalls == 2

\* addExpense up to the query for an existing subscription.  A call that
\* upserts nothing ends here.
addExpenseQuery(r, input) ==
    LET c  == getCurrentUserId(db, cookie)
        d1 == [c.db EXCEPT !.expenses = @ \cup
                  {[id |-> <<"exp", uuids + 1>>, userId |-> c.userId,
                    amount |-> input.amount, category |-> input.category,
                    date |-> input.date,
                    note |-> IF Has(input, "note") THEN input.note ELSE Null,
                    createdAt |-> nowT]}]
        name == Trim(IF Has(input, "note") THEN input.note ELSE <<>>)
    IN  /\ call.pending[r] = <<>>
        /\ call.started < MaxCalls
        /\ db' = d1
        /\ cookie' = c.cookie
        /\ uuids' = uuids + 1
        /\ IF input.category # "subscriptions" \/ name = <<>>
           THEN call' = [call EXCEPT !.started = @ + 1]
           ELSE call' = [call EXCEPT
                           !.started = @ + 1,
                           !.pending[r] =
                               <<[userId |-> c.userId, input |-> input, name |-> name,
                                  existing |-> \E x \in d1.subscriptions :
                                                  x.userId = c.userId /\ x.name = name]>>]
        /\ UNCHANGED <<nowT, env, result, ret>>

\* addExpense from the update or insert of the subscription on; ret keeps
\* the input of the call that completed last.
addExpenseUpsert(r) ==
    /\ call.pending[r] # <<>>
    /\ LET p == call.pending[r][1]
           cadence   == cadenceOfNote(p.name)
           createdAt == IF p.input.date # InvalidDate
                        THEN LocalMidnight(p.input.date) ELSE nowT
           nextBillingDate ==
               isoDate(setMonthPlus(createdAt, IF cadence = "yearly" THEN 12 ELSE 1))
       IN  IF p.existing
           THEN /\ db' = [db EXCEPT !.subscriptions =
                            {IF x.userId = p.userId /\ x.name = p.name
                             THEN [x EXCEPT !.amount = p.input.amount,
                                            !.cadence = cadence,
                                            !.nextBillingDate = nextBillingDate]
                             ELSE x : x \in @}]
                /\ uuids' = uuids
           ELSE /\ db' = [db EXCEPT !.subscriptions = @ \cup
                            {[id |-> <<"sub", uuids + 1>>, userId |-> p.userId,
                              name |-> p.name, amount |-> p.input.amount,
                              cadence |-> cadence, nextBillingDate |-> nextBillingDate,
                              createdAt |-> createdAt]}]
                /\ uuids' = uuids + 1
    /\ call' = [call EXCEPT !.pending[r] = <<>>]
    /\ ret' = <<call.pending[r][1].input>>
    /\ UNCHANGED <<cookie, nowT, env, result>>

InitUpsert ==
    /\ db = EmptyDb
    /\ cookie = NoCookie
    /\ nowT = Now0
    /\ env = UtcEnv
    /\ uuids = 0
    /\ result = NoResult
    /\ call = [fn |-> "addExpense", started |-> 0, pending |-> [r \in Requests |-> <<>>]]
    /\ ret = <<>>

AddExpenseQuery ==
    \E r \in Requests :
        \E input \in
            {[amount |-> a, category |-> "subscriptions", date |-> isoDate(nowT), note |-> n] :
                 a \in {Num(10), Num(20)},
                 n \in {<<" ", "G", "y", "m">>, <<"G", "y", "m", " ">>, <<" ">>}}
              \cup {[amount |-> Num(10), category |-> "subscriptions", date |-> isoDate(nowT)],
                    [amount |-> Num(10), category |-> "food", date |-> isoDate(nowT),
                     note |-> Gym]} :
            addExpenseQuery(r, input)

AddExpenseUpsert == \E r \in Requests : addExpenseUpsert(r)

NextUpsert == AddExpenseQuery \/ AddExpenseUpsert

SpecUpsert == InitUpsert /\ [][NextUpsert]_vars

\* C25: once an addExpense of the demo user with category 'subscriptions'
\* and a note that trims to 'Gym' has completed, the user has exactly one
\* subscription named 'Gym', with the amount and the cadence of the call
\* that completed last; calls with a blank note or another category add or
\* change no subscription.
C25_OneSubscriptionPerName ==
    LET rows == {x \in db.subscriptions : x.userId = DEMO_USER_ID /\ x.name = Gym}
    IN  /\ db.subscriptions = rows
        /\ ret = <<>> => rows = {}
        /\ ret # <<>> =>
              /\ Cardinality(rows) = 1
              /\ \A x \in rows : x.amount = ret[1].amount /\ x.cadence = "monthly"

(***************************************************************************)
(* Subscriptions added and listed                                          *)
(***************************************************************************)
AddSubscription ==
    \E nm \in {Gym, demoSeeds[2].name}, a \in {Num(25), demoSeeds[2].amount},
       cd \in {"monthly", "yearly"} :
        addSubscription([name |-> nm, amount |-> a, cadence |-> cd])

NextSubs ==
    \/ AddSubscription
    \/ ListSubscriptions
    \/ SignUp
    \/ SignOut

SpecSubs == InitStore /\ [][NextSubs]_vars

\* C26: when listSubscriptions is the first call after an addSubscription
\* of the same acting user, the list it returns holds a row with the name,
\* the amount and the cadence that were added.
C26_AddedIsListed ==
    (/\ result.op = "listSubscriptions"
     /\ call.fn = "addSubscription"
     /\ call.userId = result.userId)
        => \E i \in 1..Len(result.subscriptions) :
              /\ result.subscriptions[i].name = call.input.name
              /\ result.subscriptions[i].amount = call.input.amount
              /\ result.subscriptions[i].cadence = call.input.cadence

(***************************************************************************)
(* The dashboard summary over a ledger longer than its limit               *)
(***************************************************************************)
\* The demo user has entered ten expenses, one a day over the last ten
\* days, in turn food and transport.
InitLedger ==
    /\ nowT = Now0
    /\ db = [EmptyDb EXCEPT
                !.expenses = {[id |-> <<"exp", -k>>, userId |-> DEMO_USER_ID,
                               amount |-> Rat(100 * k + 5, 10),
                               category |-> IF k % 2 = 0 THEN "food" ELSE "transport",
                               date |-> isoDate(Now0) - k, note |-> Null,
                               createdAt |-> Now0 - 24 * k] : k \in 1..10}]
    /\ cookie = NoCookie
    /\ env = UtcEnv
    /\ uuids = 0
    /\ result = NoResult
    /\ call = NoCall
    /\ ret = Num(0)

\* An expense of today above the income of the period, and a late entry
\* for a day before all the others.
AddLedgerExpense ==
    AddExpenseOf({[amount |-> Num(3000), category |-> "housing", date |-> isoDate(nowT)],
                  [amount |-> Rat(1, 4), category |-> "food", date |-> isoDate(nowT) - 20]})

DeleteLedgerExpense ==
    \E id \in {x.id : x \in {y \in db.expenses : y.id[2] >= -1}} : deleteExpense(id)

NextLedger ==
    \/ AddLedgerExpense
    \/ DeleteLedgerExpense
    \/ GetDashboardSummary

SpecLedger == InitLedger /\ [][NextLedger]_vars

\* The sum of the amounts of a set of rows, in no particular order.
RECURSIVE AmountOfSet(_)
AmountOfSet(S) ==
    IF S = {} THEN Num(0)
    ELSE LET x == CHOOSE x \in S : TRUE IN RAdd(x.amount, AmountOfSet(S \ {x}))

RECURSIVE TotalOfEntries(_, _)
TotalOfEntries(tot, n) ==
    IF n = 0 THEN Num(0) ELSE RAdd(tot[n].total, TotalOfEntries(tot, n - 1))

\* C27: in whatever getDashboardSummary can return, recentExpenses are the
\* acting user's expenses of the latest dates, ten of them at most, spent
\* is the sum of their amounts and the sum of the values of
\* categoryTotals, and remaining is income - spent.
C27_SummaryTotals ==
    LET c == getCurrentUserId(db, cookie)
        g == getSettings(c.db, c.userId)
        mine == {e \in g.db.expenses : e.userId = c.userId}
    IN  \A f \in OrderByDesc(mine, "date") :
            LET r == dashboardSummary(c.userId, g.settings, Limit(f, 10))
                recent == {r.recentExpenses[i] : i \in 1..Len(r.recentExpenses)}
            IN  /\ recent \subseteq mine
                /\ Cardinality(recent) = Len(r.recentExpenses)
                /\ Len(r.recentExpenses) = IF Cardinality(mine) < 10 THEN Cardinality(mine) ELSE 10
                /\ \A x \in recent : \A y \in mine \ recent : x.date >= y.date
                /\ r.spent = AmountOfSet(recent)
                /\ r.spent = TotalOfEntries(r.categoryTotals, Len(r.categoryTotals))
                /\ r.remaining = RSub(r.income, r.spent)

\* C27 witness: a summary of ten out of more than ten expenses, of three
\* categories, that leaves the user overspent.
C27_Witness ==
    /\ result.op = "getDashboardSummary"
    /\ Len(result.recentExpenses) = 10
    /\ Cardinality({e \in db.expenses : e.userId = result.userId}) > 10
    /\ Len(result.categoryTotals) = 3
    /\ RLt(result.remaining, Num(0))
    /\ result.spent = AmountOfSet({result.recentExpenses[i] : i \in 1..10})

(***************************************************************************)
(* The image lookup route and its cache.  In this specification db holds   *)
(* the Map of the route module, env the variables of the process, nowT     *)
(* counts milliseconds, uuids the requests received, call the requests in  *)
(* flight and the request answered last, ret the response to it.           *)
(***************************************************************************)
cache == db.cache

CACHE_TTL_OK_MS == 10 * 60 * 1000

CACHE_TTL_EMPTY_MS == 60 * 1000

\* str.replace(/\s+/g, with)
RECURSIVE ReplaceSpaceRuns(_, _)
ReplaceSpaceRuns(str, with) ==
    IF str = <<>> THEN <<>>
    ELSE IF IsSpace(Head(str))
         THEN <<with>> \o ReplaceSpaceRuns(TrimStart(str), with)
         ELSE <<Head(str)>> \o ReplaceSpaceRuns(Tail(str), with)

normalizeQuery(query) ==
    LET q == ReplaceSpaceRuns(Trim(query), " ")
    IN  SubSeq(q, 1, IF Len(q) < 80 THEN Len(q) ELSE 80)

Unsplash == <<"u", "n", "s", "p", "l", "a", "s", "h">>

Google == <<"g", "o", "o", "g", "l", "e">>

Auto == <<"a", "u", "t", "o">>

coerceProvider(value) ==
    IF value = Null \/ value = <<>> THEN Null
    ELSE LET v == Trim(ToLowerCase(value))
         IN  IF v \in {Unsplash, Google, Auto} THEN v ELSE Null

buildUnsplashSourceUrl(query) ==
    <<"https://source.unsplash.com/900x900/?", ReplaceSpaceRuns(Trim(query), ",")>>

\* A plausible slip: an entry still answers at the instant it expires.
cacheHit_atExpiry(refresh, cacheKey, now) ==
    ~refresh /\ cacheKey \in DOMAIN cache /\ cache[cacheKey].expiresAt >= now

\* !refresh && cached && cached.expiresAt > now
cacheHit(refresh, cacheKey, now) ==
    ~refresh /\ cacheKey \in DOMAIN cache /\ cache[cacheKey].expiresAt > now

\* cache.set(cacheKey, entry)
cacheSet(cacheKey, entry) ==
    [k \in DOMAIN cache \cup {cacheKey} |-> IF k = cacheKey THEN entry ELSE cache[k]]

\* The request as the handler reads it: the normalized query, the flags,
\* the provider preferred, the cache key and the instant of Date.now().
readRequest(req) ==
    LET q == normalizeQuery(IF req.q = Null THEN <<>> ELSE req.q)
        fromParam == coerceProvider(req.provider)
        fromEnv   == coerceProvider(env.IMAGE_PROVIDER)
        preferred == IF fromParam # Null THEN fromParam
                     ELSE IF fromEnv # Null THEN fromEnv ELSE Unsplash
        envState  == IF env.GOOGLE_API_KEY /\ env.GOOGLE_CSE_ID THEN "env1" ELSE "env0"
    IN  [q |-> q, refresh |-> req.refresh, preferred |-> preferred,
         cacheKey |-> <<preferred, envState, q>>, now |-> nowT]

\* The end of the handler when Google gave no image or was not asked: the
\* Unsplash address is stored and returned.
answerUnsplash(rd) ==
    LET imageUrl == buildUnsplashSourceUrl(rd.q)
    IN  /\ db' = [db EXCEPT !.cache =
                     cacheSet(rd.cacheKey,
                              [imageUrl |-> imageUrl, provider |-> Unsplash,
                               cachedAt |-> rd.now,
                               expiresAt |-> rd.now + (IF rd.preferred = Google
                                                       THEN CACHE_TTL_EMPTY_MS
                                                       ELSE CACHE_TTL_OK_MS)])]
        /\ ret' = [status |-> 200, imageUrl |-> imageUrl, cached |-> FALSE,
                   provider |-> Unsplash]

\* GET up to the lookup at Google, which the handler awaits; a request
\* that does not ask Google is answered at once.
GET(r, req) ==
    LET rd == readRequest(req)
    IN  /\ call.pending[r] = <<>>
        /\ \A o \in Requests : o < r => call.pending[o] # <<>>
        /\ IF rd.q = <<>>
           THEN /\ ret' = [status |-> 200, imageUrl |-> Null]
                /\ call' = [call EXCEPT !.last = <<rd>>]
                /\ UNCHANGED db
           ELSE IF cacheHit(rd.refresh, rd.cacheKey, rd.now)
           THEN /\ ret' = [status |-> 200, imageUrl |-> cache[rd.cacheKey].imageUrl,
                           cached |-> TRUE, provider |-> cache[rd.cacheKey].provider]
                /\ call' = [call EXCEPT !.last = <<rd>>]
                /\ UNCHANGED db
           ELSE IF rd.preferred \in {Google, Auto} /\ env.GOOGLE_API_KEY /\ env.GOOGLE_CSE_ID
           THEN /\ call' = [call EXCEPT !.pending[r] = <<rd>>]
                /\ UNCHANGED <<db, ret>>
           ELSE /\ answerUnsplash(rd)
                /\ call' = [call EXCEPT !.last = <<rd>>]
        /\ UNCHANGED <<cookie, nowT, env, result>>

\* GET from the return of lookupGoogleImageUrl on: google is the address
\* it found, Null when it found none or the upstream refused, and Threw
\* when the fetch failed.
Threw == <<"threw">>

GETResume(r, google) ==
    /\ call.pending[r] # <<>>
    /\ LET rd == call.pending[r][1]
       IN  /\ IF google # Threw /\ google # Null
              THEN /\ db' = [db EXCEPT !.cache =
                               cacheSet(rd.cacheKey,
                                        [imageUrl |-> google, provider |-> Google,
                                         cachedAt |-> rd.now,
                                         expiresAt |-> rd.now + CACHE_TTL_OK_MS])]
                   /\ ret' = [status |-> 200, imageUrl |-> google, cached |-> FALSE,
                              provider |-> Google]
              ELSE answerUnsplash(rd)
           /\ call' = [call EXCEPT !.pending[r] = <<>>, !.last = <<rd>>]
    /\ UNCHANGED <<cookie, nowT, env, uuids, result>>

Thumb == <<"https://encrypted-tbn0.gstatic.com/images?q=", 1>>

InitImage ==
    /\ db = [cache |-> <<>>]
    /\ \E ip \in {Null, <<"a", "u", "t", "o">>}, cse \in BOOLEAN :
          env = [IMAGE_PROVIDER |-> ip, GOOGLE_API_KEY |-> TRUE, GOOGLE_CSE_ID |-> cse]
    /\ nowT = 0
    /\ cookie = NoCookie
    /\ uuids = 0
    /\ result = NoResult
    /\ call = [fn |-> "GET", pending |-> [r \in Requests |-> <<>>], last |-> <<>>]
    /\ ret = [status |-> 0]

\* The most requests one run of this specification answers.
MaxRequests == 2

Get ==
    /\ uuids < MaxRequests
    /\ uuids' = uuids + 1
    /\ \E r \in Requests :
          \E req \in {[q |-> q, provider |-> pv, refresh |-> rf] :
                         q \in {<<" ", "t", "v">>, <<"t", " ", " ", "v">>},
                         pv \in {Null, <<"G", "o", "o", "g", "l", "e", " ">>},
                         rf \in BOOLEAN}
                      \cup {[q |-> <<" ">>, provider |-> Null, refresh |-> TRUE]} :
              GET(r, req)

GetResume == \E r \in Requests : \E g \in {Threw, Null, Thumb} : GETResume(r, g)

\* Time passes up to one of the instants looked at: the ends of the two
\* lifetimes of an entry stored at the start, and a minute beyond.
TickCache ==
    /\ \E t \in {CACHE_TTL_EMPTY_MS, CACHE_TTL_OK_MS, CACHE_TTL_OK_MS + CACHE_TTL_EMPTY_MS} :
          nowT < t /\ nowT' = t
    /\ UNCHANGED <<db, cookie, env, uuids, result, call, ret>>

NextImage == Get \/ GetResume \/ TickCache

SpecImage == InitImage /\ [][NextImage]_vars

\* The response answered last against the cache as it stands: a cached
\* answer needs a request without refresh and an entry under its key that
\* outlives the instant of the request, and repeats the address and the
\* provider of the entry; any other answer has just stored its address
\* and provider under the key, stamped with the instant of the request.
AnswersFromCache ==
    (call.last # <<>> /\ "cached" \in DOMAIN ret) =>
        LET rd == call.last[1]
            k  == rd.cacheKey
        IN  /\ k \in DOMAIN cache
            /\ k = <<rd.preferred,
                     IF env.GOOGLE_API_KEY /\ env.GOOGLE_CSE_ID THEN "env1" ELSE "env0", rd.q>>
            /\ rd.q # <<>> /\ ~IsSpace(rd.q[1]) /\ ~IsSpace(rd.q[Len(rd.q)])
            /\ ret.imageUrl = cache[k].imageUrl
            /\ ret.provider = cache[k].provider
            /\ ret.cached => (~rd.refresh /\ cache[k].expiresAt > rd.now)
            /\ ~ret.cached =>
                  /\ cache[k].cachedAt = rd.now
                  /\ cache[k].expiresAt =
                         rd.now + (IF ret.provider = Unsplash /\ rd.preferred = Google
                                   THEN CACHE_TTL_EMPTY_MS ELSE CACHE_TTL_OK_MS)

\* An entry is written only by the request that is answered uncached in
\* the same step, under its own key.
OnlyFillsWrite ==
    \A k \in DOMAIN db'.cache :
        (k \notin DOMAIN db.cache \/ db'.cache[k] # db.cache[k])
            => (~ret'.cached /\ call'.last[1].cacheKey = k)

\* C28: the route answers cached: true only for a request without
\* refresh=1 whose key (provider preferred, credential state, normalized
\* query) has an entry with expiresAt later than the instant of the
\* request, and then returns the imageUrl and provider of that entry as
\* the request that filled it stored them; every other answer to a query
\* recomputes the address and overwrites the entry of the key.
C28_ImageCache == []AnswersFromCache /\ [][OnlyFillsWrite]_vars

\* C28 witness: an address found at Google was stored, a minute or more
\* went by, and a request for the same key was answered from the cache.
C28_Witness ==
    /\ call.last # <<>>
    /\ "cached" \in DOMAIN ret
    /\ ret.cached
    /\ ret.provider = Google
    /\ ret.imageUrl = Thumb
    /\ call.last[1].now > cache[call.last[1].cacheKey].cachedAt

(***************************************************************************)
(* The projected curve against the closed form                             *)
(***************************************************************************)
\* C29: for a projection that starts from 0 at an annual rate >= 0, the
\* value of the last point of projectCurve is futureValueMonthly of the
\* same contribution, rate and number of months, and what
\* futureValueMonthly returns is the last value of that projection; the
\* rate 0 and the projection of no month included.
C29_CurveMeetsClosedForm ==
    /\ (call.fn = "projectCurve" /\ call.initial = Num(0)) =>
          ret[Len(ret)].value =
              futureValueMonthly(call.monthlyContribution, call.annualRate, call.months)
    /\ call.fn = "futureValueMonthly" =>
          LET points == projectCurve(call.months, Num(0), call.monthly, call.annualRate)
          IN  ret = points[Len(points)].value

\* C29 witness: a projection from 0 over the longest span, at a rate above
\* 0, whose last value exceeds the contributions paid in.
C29_Witness ==
    /\ call.fn = "projectCurve"
    /\ call.initial = Num(0)
    /\ call.months = MaxMonths
    /\ RGt(call.annualRate, Num(0))
    /\ RGt(call.monthlyContribution, Num(0))
    /\ RGt(ret[Len(ret)].value, RMul(call.monthlyContribution, Num(call.months)))
    /\ ret[Len(ret)].value =
          futureValueMonthly(call.monthlyContribution, call.annualRate, call.months)

(***************************************************************************)
(* Insights page: the score of what getInsightsData returns                *)
(***************************************************************************)
\* Expenses the dashboard form sends (it refuses an amount that is not
\* finite or not above 0): one above the default income, one at half of it,
\* and a small one.
HealthExpenseInputs ==
    {[amount |-> a, category |-> "food", date |-> isoDate(nowT)] :
        a \in {Num(3000), Num(1200), Rat(1, 4)}}

\* Settings changes that move the income: no wage, the highest wage, and
\* the two other pay frequencies.
HealthSettingsInputs ==
    {[hourlyWage |-> Num(0)], [hourlyWage |-> Infinity],
     [payFrequency |-> "weekly"], [payFrequency |-> "monthly"]}

\* The number of expenses entered.
MaxSpends == 2

AddHealthExpense == uuids < MaxSpends /\ AddExpenseOf(HealthExpenseInputs)

SetPay == UpdateMySettingsOf(HealthSettingsInputs)

NextHealth == AddHealthExpense \/ SetPay \/ GetInsightsData \/ Tick

SpecHealth == InitStore /\ [][NextHealth]_vars

\* The score the Insights page computes from the data it loaded.
healthScore(data) == score(data.income, data.spent30, data.remaining)

\* C30: the health score computed from what getInsightsData returns (its
\* remaining being max(income - spent30, 0)) is at least 30, whatever the
\* income and the expenses of the last 30 days.
C30_ScoreAtLeast30 ==
    result.op = "getInsightsData" =>
        /\ result.remaining = insightsRemaining(result.income, result.spent30)
        /\ RGe(healthScore(result), Num(30))

\* C30 witness: the expenses of the last 30 days exceed a positive income,
\* nothing remains, and the score is exactly 30.
C30_Witness ==
    /\ result.op = "getInsightsData"
    /\ RGt(result.income, Num(0))
    /\ RGt(result.spent30, result.income)
    /\ result.remaining = Num(0)
    /\ healthScore(result) = Num(30)

====
